---- MODULE Spec2Model ----
(***************************************************************************)
(* Model of the pricing engine of the "precificacao" app: unit conversion, *)
(* material cost, labour rate table, the price pipeline (preco_sugerido),  *)
(* the lazily created per-organisation rows, the cache-refresh signals and *)
(* quote creation; and of the order handling of the "vendas" app:          *)
(* checkout, the payment gateway's notifications, order expiry and         *)
(* download links (money in cents, time in days).                          *)
(*                                                                         *)
(* Decimal values are carried as integers in a fixed unit per field:       *)
(*   money with 2 decimals (custo_compra, preco_unitario, caches, totals,  *)
(*       arredondar_para)                    : count of 0.01               *)
(*   money with 4 decimals (every value quantized with FOUR / FOUR_PLACES, *)
(*       custo_tinta_por_percentual)         : count of 0.0001             *)
(*   percentages                             : whole percents              *)
(*   quantidade_compra, fator_conversao_para_base, quantidade_uso,         *)
(*       horas_por_dia, renda and the monthly fixed costs : whole units    *)
(*   ItemOrcamento.quantidade                : count of 0.01               *)
(* The fields restricted to whole units keep every product below 2^31.     *)
(* An optional value (a nullable column, an empty form field) is a         *)
(* sequence: <<>> for None, <<v>> for the value v.                         *)
(***************************************************************************)
EXTENDS Integers, Sequences, FiniteSets, TLC

VARIABLES
    ent,          \* pure-function specifications: the inputs drawn by Init
    res,          \* pure-function specifications: <<>> or <<result>>; the handlers:
                  \* <<>> or <<what the last produto_detail returned>>
    parametros,   \* table ParametrosGlobais: committed rows
    tabelas,      \* table TabelaHora: committed rows
    materias,     \* table MateriaPrima: id -> row
    produtos,     \* table Produto: id -> row
    componentes,  \* table ComponenteProduto: sequence of rows
    orcamentos,   \* table Orcamento: id -> row
    itens,        \* table ItemOrcamento: sequence of rows
    req,          \* <<>> or <<the lines posted to the last orcamento_create that saved
                  \* lines, and the cached prices at that moment>>
    chamadores,   \* concurrent callers of preco_sugerido: id -> local state
    now,          \* vendas: timezone.now(), in days
    product,      \* vendas: the row of the one digital Product on sale
    orders,       \* vendas: table Order, pk -> row
    payments,     \* the gateway's payments, id -> what payment().get(id) returns
    links,        \* vendas: table DownloadLink, order pk -> row
    requests      \* vendas: requests in flight, id -> position and local variables

vars == <<ent, res, parametros, tabelas, materias, produtos, componentes,
          orcamentos, itens, req, chamadores,
          now, product, orders, payments, links, requests>>

\* the state of the app vendas and of the payment gateway
loja == <<now, product, orders, payments, links, requests>>

SemLoja ==
    /\ now = 0 /\ product = <<>> /\ orders = <<>> /\ payments = <<>>
    /\ links = <<>> /\ requests = <<>>

(***************************************************************************)
(* Decimal arithmetic                                                      *)
(***************************************************************************)

Abs(n) == IF n < 0 THEN -n ELSE n

\* n/d rounded to an integer, ties away from zero (decimal.ROUND_HALF_UP)
HalfUpPos(n, d) == (2 * n + d) \div (2 * d)

RoundHalfUp(n, d) ==
    LET nn == IF d < 0 THEN -n ELSE n
        dd == Abs(d)
    IN  IF nn >= 0 THEN HalfUpPos(nn, dd) ELSE -HalfUpPos(-nn, dd)

\* n/d rounded to an integer, ties to the even neighbour (decimal.ROUND_HALF_EVEN,
\* the rounding of the default context, used by quantize() without a rounding argument)
HalfEvenPos(n, d) ==
    LET qq == n \div d
        rr == n % d
    IN  IF 2 * rr > d THEN qq + 1
        ELSE IF 2 * rr < d THEN qq
        ELSE IF qq % 2 = 0 THEN qq ELSE qq + 1

RoundHalfEven(n, d) ==
    LET nn == IF d < 0 THEN -n ELSE n
        dd == Abs(d)
    IN  IF nn >= 0 THEN HalfEvenPos(nn, dd) ELSE -HalfEvenPos(-nn, dd)

\* _q(x, TWO) of a 4-decimal value: cents, half-up
QTwo(x4) == RoundHalfUp(x4, 100)

(***************************************************************************)
(* models.py: TabelaHora                                                   *)
(***************************************************************************)

\* dias * horas_por_dia, in hours (the quantize to 4 places is exact)
horas_mes(t) == t.dias_trabalho_mes * t.horas_por_dia

\* the guard filled with the hours of the default month instead of 1
HMesOuPadrao(t) == IF horas_mes(t) = 0 THEN 176 ELSE horas_mes(t)

\* h_mes = self.horas_mes() or Decimal("1")
HMesOuUm(t) == IF horas_mes(t) = 0 THEN 1 ELSE horas_mes(t)

mao_de_obra_hora(t) == RoundHalfEven(t.renda_mensal_desejada * 10000, HMesOuUm(t))

\* fixos_hora with one of the three monthly costs left out of the sum
fixos_hora_sem_outros(t, p) ==
    RoundHalfEven((p.custo_energia_mensal + p.custo_internet_mensal) * 10000, HMesOuUm(t))

fixos_hora(t, p) ==
    RoundHalfEven((p.custo_energia_mensal + p.custo_internet_mensal
                   + p.outros_custos_fixos_mensais) * 10000, HMesOuUm(t))

custo_hora_total(t, p) == mao_de_obra_hora(t) + fixos_hora(t, p)

custo_minuto_total(t, p) == RoundHalfEven(custo_hora_total(t, p), 60)

(***************************************************************************)
(* models.py: MateriaPrima.custo_unitario_base                             *)
(***************************************************************************)

qty_base(mp) ==
    IF mp.unidade_compra # mp.unidade_base
    THEN mp.quantidade_compra * mp.fator_conversao_para_base
    ELSE mp.quantidade_compra

custo_unitario_base(mp) ==
    IF qty_base(mp) = 0 THEN 0
    ELSE RoundHalfEven(mp.custo_compra * 100, qty_base(mp))

(***************************************************************************)
(* services/pricing.py                                                     *)
(***************************************************************************)

\* the variant the comment in custo_materiais describes: the material's perda added
PerdaComMateria(comp) == comp.perda_percentual + comp.mp.perda_percentual

\* perda of one component, in percent: the component's own field only
PerdaUsada(comp) == comp.perda_percentual

\* unit * qtd_efetiva of one component, in units of 0.000001
TermoMaterial(comp) ==
    custo_unitario_base(comp.mp) * comp.quantidade_uso * (100 + PerdaUsada(comp))

\* the loop of custo_materiais: total += unit * qtd_efetiva
RECURSIVE SomaMateriais(_)
SomaMateriais(comps) ==
    IF comps = <<>> THEN 0
    ELSE TermoMaterial(Head(comps)) + SomaMateriais(Tail(comps))

\* comps: the product's components, each joined with its material (comp.mp)
custo_materiais(comps) == RoundHalfUp(SomaMateriais(comps), 100)

\* at least one minute charged: tempo_producao_minutos or 1
custo_mao_de_obra_minimo(produto, p, t) ==
    custo_minuto_total(t, p)
        * (IF produto.tempo_producao_minutos = 0 THEN 1 ELSE produto.tempo_producao_minutos)

custo_mao_de_obra(produto, p, t) == custo_minuto_total(t, p) * produto.tempo_producao_minutos

custo_tinta_percentual(produto, p) ==
    IF ~produto.usa_percentual_tinta THEN 0
    ELSE RoundHalfUp(produto.percentual_tinta * p.custo_tinta_por_percentual, 100)

\* _arredondar with a hand-made ceiling: the integer part plus one
arredondar_teto(valor, passo) ==
    IF passo <= 0 THEN QTwo(valor)
    ELSE ((valor \div (100 * passo)) + 1) * passo

\* _arredondar with the rounding argument of to_integral_value left out
arredondar_half_even(valor, passo) ==
    IF passo <= 0 THEN QTwo(valor)
    ELSE RoundHalfEven(valor, 100 * passo) * passo

\* _arredondar(valor, passo): valor with 4 decimals, passo and the result in cents
arredondar(valor, passo) ==
    IF passo <= 0 THEN QTwo(valor)
    ELSE RoundHalfUp(valor, 100 * passo) * passo

\* the override tested for truth instead of against None: an override of 0 is
\* taken for an absent one
MargemSeVerdadeira(produto, p) ==
    IF produto.margem_lucro_override # <<>> /\ produto.margem_lucro_override[1] # 0
    THEN produto.margem_lucro_override[1]
    ELSE p.margem_lucro_padrao

MargemUsada(produto, p) ==
    IF produto.margem_lucro_override # <<>>
    THEN produto.margem_lucro_override[1]
    ELSE p.margem_lucro_padrao

\* the pipeline with every percentage taken off preco_sem_taxas instead of the
\* running total
PrecificarSemCascata(materiais, mo, tinta, margem, p) ==
    LET custo_total      == materiais + mo + tinta
        preco_sem_taxas  == RoundHalfUp(custo_total * (100 + margem), 100)
        impostos         == RoundHalfUp(preco_sem_taxas * p.impostos_percentual_sobre_venda, 100)
        com_impostos     == preco_sem_taxas + impostos
        taxa_cartao      == RoundHalfUp(preco_sem_taxas * p.taxa_cartao_percentual, 100)
        com_taxas        == com_impostos + taxa_cartao
        acrescimo_padrao == RoundHalfUp(preco_sem_taxas * p.acrescimo_padrao_percentual, 100)
        bruto            == com_taxas + acrescimo_padrao
        final            == arredondar(bruto, p.arredondar_para)
    IN  [materiais |-> materiais, mao_de_obra |-> mo, tinta |-> tinta,
         custo_total |-> custo_total, margem |-> margem,
         preco_sem_taxas |-> preco_sem_taxas, impostos |-> impostos,
         com_impostos |-> com_impostos, taxa_cartao |-> taxa_cartao,
         com_taxas |-> com_taxas, acrescimo_padrao |-> acrescimo_padrao,
         bruto |-> bruto, final |-> final]

\* lines 85-99: from the three cost terms to the rounded price; every local of
\* preco_sugerido is kept (4 decimals, "final" in cents)
Precificar(materiais, mo, tinta, margem, p) ==
    LET custo_total      == materiais + mo + tinta
        preco_sem_taxas  == RoundHalfUp(custo_total * (100 + margem), 100)
        impostos         == RoundHalfUp(preco_sem_taxas * p.impostos_percentual_sobre_venda, 100)
        com_impostos     == preco_sem_taxas + impostos
        taxa_cartao      == RoundHalfUp(com_impostos * p.taxa_cartao_percentual, 100)
        com_taxas        == com_impostos + taxa_cartao
        acrescimo_padrao == RoundHalfUp(com_taxas * p.acrescimo_padrao_percentual, 100)
        bruto            == com_taxas + acrescimo_padrao
        final            == arredondar(bruto, p.arredondar_para)
    IN  [materiais |-> materiais, mao_de_obra |-> mo, tinta |-> tinta,
         custo_total |-> custo_total, margem |-> margem,
         preco_sem_taxas |-> preco_sem_taxas, impostos |-> impostos,
         com_impostos |-> com_impostos, taxa_cartao |-> taxa_cartao,
         com_taxas |-> com_taxas, acrescimo_padrao |-> acrescimo_padrao,
         bruto |-> bruto, final |-> final]

\* the computation of preco_sugerido once parametros and tabela are at hand
calculo(produto, comps, p, t) ==
    Precificar(custo_materiais(comps), custo_mao_de_obra(produto, p, t),
               custo_tinta_percentual(produto, p), MargemUsada(produto, p), p)

\* the Breakdown returned: every field quantized to 2 decimals (cents)
Breakdown(c) ==
    [materiais |-> QTwo(c.materiais), mao_de_obra |-> QTwo(c.mao_de_obra),
     tinta |-> QTwo(c.tinta), custo_total |-> QTwo(c.custo_total),
     margem_percentual |-> c.margem, preco_sem_taxas |-> QTwo(c.preco_sem_taxas),
     impostos |-> QTwo(c.impostos), taxa_cartao |-> QTwo(c.taxa_cartao),
     acrescimo_padrao |-> QTwo(c.acrescimo_padrao), preco_final |-> c.final]

\* the defaults of the two get_or_create calls
ParametrosDefaults ==
    [margem_lucro_padrao |-> 30, acrescimo_padrao_percentual |-> 0,
     impostos_percentual_sobre_venda |-> 0, taxa_cartao_percentual |-> 0,
     custo_energia_mensal |-> 0, custo_internet_mensal |-> 0,
     outros_custos_fixos_mensais |-> 0, custo_tinta_por_percentual |-> 0,
     arredondar_para |-> 100]

TabelaDefaults ==
    [renda_mensal_desejada |-> 3000, dias_trabalho_mes |-> 22, horas_por_dia |-> 8]

(***************************************************************************)
(* Input domains of the pure-function specifications                       *)
(***************************************************************************)

MaxComponentes == 2

\* scenario 1 of the specification: 1 ream for 25.00, 500 sheets
MPResma ==
    [nome |-> "resma", unidade_compra |-> "RESMA", quantidade_compra |-> 1,
     custo_compra |-> 2500, unidade_base |-> "FOLHA",
     fator_conversao_para_base |-> 500, perda_percentual |-> 0]

\* bought and used in the same unit; 0.01 / 8 = 0.00125 lies half-way between two
\* 4-decimal values; the factor is not 1 and must be ignored
MPUnidade ==
    [nome |-> "ilhos", unidade_compra |-> "UN", quantidade_compra |-> 8,
     custo_compra |-> 1, unidade_base |-> "UN",
     fator_conversao_para_base |-> 3, perda_percentual |-> 10]

\* two boxes of 20 for 0.30 (0.0075 a piece), with a wastage percent of its own
MPCaixa ==
    [nome |-> "caixa", unidade_compra |-> "CX", quantidade_compra |-> 2,
     custo_compra |-> 30, unidade_base |-> "UN",
     fator_conversao_para_base |-> 20, perda_percentual |-> 25]

\* conversion factor left at zero (MateriaPrimaForm.clean keeps it when no helper
\* field is filled in)
MPFatorZero ==
    [nome |-> "rolo", unidade_compra |-> "CX", quantidade_compra |-> 1,
     custo_compra |-> 1000, unidade_base |-> "M",
     fator_conversao_para_base |-> 0, perda_percentual |-> 0]

\* a negative conversion factor: the column has no validator and
\* MateriaPrimaForm.clean returns the data unchanged
MPFatorNegativo ==
    [nome |-> "tinta", unidade_compra |-> "L", quantidade_compra |-> 1,
     custo_compra |-> 100, unidade_base |-> "ML",
     fator_conversao_para_base |-> -2, perda_percentual |-> 0]

MateriasDomain == {MPResma, MPUnidade, MPCaixa, MPFatorZero, MPFatorNegativo}

ComponentesDe(mps) ==
    [mp : mps, quantidade_uso : {1, 100}, perda_percentual : {0, 50}]

\* unique_together (produto, materia_prima): no material twice in a product
SemRepeticao(comps) ==
    \A i, j \in DOMAIN comps : i # j => comps[i].mp.nome # comps[j].mp.nome

ListasDe(mps) ==
    {cs \in UNION {[1..n -> ComponentesDe(mps)] : n \in 0..MaxComponentes} :
        SemRepeticao(cs)}

ProdutoDomain ==
    [tempo_producao_minutos : {0, 10}, usa_percentual_tinta : BOOLEAN,
     percentual_tinta : {50}, margem_lucro_override : {<<>>, <<0>>, <<50>>}]

ParametrosDomain ==
    [margem_lucro_padrao : {30}, acrescimo_padrao_percentual : {0, 2},
     impostos_percentual_sobre_venda : {0, 10}, taxa_cartao_percentual : {0, 5},
     custo_energia_mensal : {0, 176}, custo_internet_mensal : {0},
     outros_custos_fixos_mensais : {0}, custo_tinta_por_percentual : {0, 500},
     arredondar_para : {0, 5, 100}]

\* the default table; a rate that is a tie (1 / 32 h); a month of zero hours
TabelaDomain ==
    {TabelaDefaults,
     [renda_mensal_desejada |-> 1, dias_trabalho_mes |-> 4, horas_por_dia |-> 8],
     [renda_mensal_desejada |-> 3000, dias_trabalho_mes |-> 0, horas_por_dia |-> 8],
     [renda_mensal_desejada |-> 2500, dias_trabalho_mes |-> 20, horas_por_dia |-> 6]}

FixosDomain ==
    [custo_energia_mensal : {0, 100}, custo_internet_mensal : {0, 50},
     outros_custos_fixos_mensais : {0, 26}]

SemBanco ==
    /\ parametros = <<>> /\ tabelas = <<>> /\ materias = <<>> /\ produtos = <<>>
    /\ componentes = <<>> /\ orcamentos = <<>> /\ itens = <<>>
    /\ req = <<>> /\ chamadores = <<>>
    /\ SemLoja

BancoParado ==
    UNCHANGED <<parametros, tabelas, materias, produtos, componentes,
                orcamentos, itens, req, chamadores, loja>>

(***************************************************************************)
(* SpecPreco: preco_sugerido as a function of a product, its components,   *)
(* the parameters and the labour table                                     *)
(***************************************************************************)

InitPreco ==
    /\ ent \in [produto : ProdutoDomain,
                comps : {<<>>,
                         <<[mp |-> MPResma, quantidade_uso |-> 100, perda_percentual |-> 0]>>,
                         <<[mp |-> MPCaixa, quantidade_uso |-> 1, perda_percentual |-> 50]>>},
                parametros : ParametrosDomain,
                tabela : {TabelaDefaults,
                          [renda_mensal_desejada |-> 1, dias_trabalho_mes |-> 4,
                           horas_por_dia |-> 8]}]
    /\ res = <<>>
    /\ SemBanco

CalcularPreco ==
    /\ res = <<>>
    /\ "produto" \in DOMAIN ent
    /\ res' = <<calculo(ent.produto, ent.comps, ent.parametros, ent.tabela)>>
    /\ UNCHANGED ent
    /\ BancoParado

NextPreco == CalcularPreco

SpecPreco == InitPreco /\ [][NextPreco]_vars

(***************************************************************************)
(* SpecCusto: custo_unitario_base and custo_materiais                      *)
(***************************************************************************)

InitCusto ==
    /\ ent \in [comps : ListasDe(MateriasDomain)]
    /\ res = <<>>
    /\ SemBanco

CalcularCusto ==
    /\ res = <<>>
    /\ DOMAIN ent = {"comps"}
    /\ res' = <<[unit |-> [i \in DOMAIN ent.comps |-> custo_unitario_base(ent.comps[i].mp)],
                 materiais |-> custo_materiais(ent.comps)]>>
    /\ UNCHANGED ent
    /\ BancoParado

\* the material's own perda_percentual is edited (MateriaPrimaAdmin) and the
\* cost is computed again
AlterarPerdaMateria ==
    /\ res # <<>>
    /\ DOMAIN ent = {"comps"}
    /\ \E i \in DOMAIN ent.comps : \E perda \in {0, 10, 25} :
          /\ perda # ent.comps[i].mp.perda_percentual
          /\ ent' = [ent EXCEPT !.comps[i].mp.perda_percentual = perda]
    /\ res' = <<[unit |-> [i \in DOMAIN ent'.comps |-> custo_unitario_base(ent'.comps[i].mp)],
                 materiais |-> custo_materiais(ent'.comps)]>>
    /\ BancoParado

NextCusto == CalcularCusto \/ AlterarPerdaMateria

SpecCusto == InitCusto /\ [][NextCusto]_vars

(***************************************************************************)
(* SpecHora: the rates of TabelaHora and custo_mao_de_obra                 *)
(***************************************************************************)

InitHora ==
    /\ ent \in [tabela : TabelaDomain, fixos : FixosDomain, tempo : {0, 10, 45}]
    /\ res = <<>>
    /\ SemBanco

CalcularHora ==
    /\ res = <<>>
    /\ "tempo" \in DOMAIN ent
    /\ LET t == ent.tabela
           p == ent.fixos
       IN  res' = <<[horas_mes |-> horas_mes(t),
                     mao_de_obra_hora |-> mao_de_obra_hora(t),
                     fixos_hora |-> fixos_hora(t, p),
                     custo_hora_total |-> custo_hora_total(t, p),
                     custo_minuto_total |-> custo_minuto_total(t, p),
                     custo_mao_de_obra |->
                         custo_mao_de_obra([tempo_producao_minutos |-> ent.tempo], p, t)]>>
    /\ UNCHANGED ent
    /\ BancoParado

NextHora == CalcularHora

SpecHora == InitHora /\ [][NextHora]_vars

(***************************************************************************)
(* The database and the request handlers                                   *)
(***************************************************************************)

MaxProdutos == 1
MaxOrcamentos == 1

\* the tables as one record, so that a handler is a composition of steps
Banco ==
    [parametros |-> parametros, tabelas |-> tabelas, materias |-> materias,
     produtos |-> produtos, componentes |-> componentes,
     orcamentos |-> orcamentos, itens |-> itens]

Gravar(db) ==
    /\ parametros' = db.parametros
    /\ tabelas' = db.tabelas
    /\ materias' = db.materias
    /\ produtos' = db.produtos
    /\ componentes' = db.componentes
    /\ orcamentos' = db.orcamentos
    /\ itens' = db.itens

\* update_or_create in the place of get_or_create: an existing row is overwritten
\* with the defaults
UpdateOrCreate(db) ==
    [db EXCEPT !.parametros = <<ParametrosDefaults>>, !.tabelas = <<TabelaDefaults>>]

\* ParametrosGlobais.objects.get_or_create(empresa=empresa, defaults=...) and
\* TabelaHora.objects.get_or_create(...), one caller at a time
GetOrCreate(db) ==
    [db EXCEPT
        !.parametros = IF db.parametros = <<>> THEN <<ParametrosDefaults>> ELSE @,
        !.tabelas = IF db.tabelas = <<>> THEN <<TabelaDefaults>> ELSE @]

\* produto.componentes.select_related("materia_prima").all()
ComponentesDoProduto(db, pk) ==
    LET sel == SelectSeq(db.componentes, LAMBDA c : c.produto = pk)
    IN  [i \in 1..Len(sel) |->
            [mp |-> db.materias[sel[i].materia_prima],
             quantidade_uso |-> sel[i].quantidade_uso,
             perda_percentual |-> sel[i].perda_percentual]]

\* a price computed, when the labour table has no row yet, on an unsaved
\* TabelaHora without income instead of the row that get_or_create stores
PrecoComTabelaProvisoria(db, pk) ==
    Breakdown(calculo(db.produtos[pk], ComponentesDoProduto(db, pk),
                      GetOrCreate(db).parametros[1],
                      IF db.tabelas = <<>>
                      THEN [TabelaDefaults EXCEPT !.renda_mensal_desejada = 0]
                      ELSE db.tabelas[1]))

\* the Breakdown preco_sugerido(produto, empresa) returns on the database db
preco_sugerido(db, pk) ==
    Breakdown(calculo(db.produtos[pk], ComponentesDoProduto(db, pk),
                      GetOrCreate(db).parametros[1], GetOrCreate(db).tabelas[1]))

\* a refresh that also re-prices the quote lines of the product
RefreshReprecifica(db, pk) ==
    LET bd == preco_sugerido(db, pk)
    IN  [GetOrCreate(db) EXCEPT
            !.produtos[pk].custo_estimado_cache = bd.custo_total,
            !.produtos[pk].preco_sugerido_cache = bd.preco_final,
            !.itens = [i \in DOMAIN @ |->
                          IF @[i].produto = pk
                          THEN [@[i] EXCEPT !.preco_unitario = bd.preco_final]
                          ELSE @[i]]]

\* signals.py: both receivers compute the price and write the two cache columns
\* of the product, nothing else
_refresh_prod_cache(db, pk) ==
    LET bd == preco_sugerido(db, pk)
    IN  [GetOrCreate(db) EXCEPT
            !.produtos[pk].custo_estimado_cache = bd.custo_total,
            !.produtos[pk].preco_sugerido_cache = bd.preco_final]

\* MateriaPrimaForm.clean: a positive factor is kept; otherwise the factor is
\* derived from the helper field that matches the base unit (largura in whole metres)
MateriaPrimaFormClean(data) ==
    LET fator == data.fator_conversao_para_base
        qtd_compra == IF data.quantidade_compra = 0 THEN 1 ELSE data.quantidade_compra
        calc == IF data.unidade_base = "FOLHA" /\ data.folhas_por_resma # <<>>
                THEN data.folhas_por_resma[1] * qtd_compra
                ELSE IF data.unidade_base = "M" /\ data.comprimento_m # <<>>
                THEN data.comprimento_m[1] * qtd_compra
                ELSE IF data.unidade_base = "M2" /\ data.largura_cm # <<>>
                        /\ data.comprimento_m # <<>>
                THEN (data.largura_cm[1] \div 100) * data.comprimento_m[1] * qtd_compra
                ELSE 0
    IN  IF fator > 0 THEN fator
        ELSE IF calc > 0 THEN calc
        ELSE fator

LinhaMateria(data) ==
    [nome |-> data.nome, unidade_compra |-> data.unidade_compra,
     quantidade_compra |-> data.quantidade_compra, custo_compra |-> data.custo_compra,
     unidade_base |-> data.unidade_base,
     fator_conversao_para_base |-> MateriaPrimaFormClean(data),
     perda_percentual |-> data.perda_percentual]

\* the ream of scenario 1, entered with the factor or with the helper field
MateriaPosts ==
    {[nome |-> "resma", unidade_compra |-> "RESMA", quantidade_compra |-> 1,
      custo_compra |-> 2500, unidade_base |-> "FOLHA", fator_conversao_para_base |-> f,
      perda_percentual |-> 0, folhas_por_resma |-> fl, largura_cm |-> <<>>,
      comprimento_m |-> <<>>] : <<f, fl>> \in {<<500, <<>> >>, <<0, <<500>> >>}}

\* views.materia_prima_create
materia_prima_create ==
    /\ \E data \in MateriaPosts :
          /\ data.nome \notin DOMAIN materias             \* unique_together (empresa, nome)
          /\ materias' = [n \in DOMAIN materias \cup {data.nome} |->
                             IF n = data.nome THEN LinhaMateria(data) ELSE materias[n]]
    /\ UNCHANGED <<loja, ent, res, parametros, tabelas, produtos, componentes, orcamentos,
                   itens, req, chamadores>>

\* MateriaPrimaAdmin: the purchase cost of a material is edited (no signal)
admin_materia_change ==
    /\ \E n \in DOMAIN materias : \E custo \in {2500, 3000} :
          /\ custo # materias[n].custo_compra
          /\ materias' = [materias EXCEPT ![n].custo_compra = custo]
    /\ UNCHANGED <<loja, ent, parametros, tabelas, produtos, componentes, orcamentos,
                   itens, req, chamadores>>
    /\ res' = <<>>                                  \* the inputs of the price changed

ProdutoPosts ==
    [tempo_producao_minutos : {10}, usa_percentual_tinta : {FALSE},
     percentual_tinta : {0}, margem_lucro_override : {<<>>, <<50>>}]

ComponentePosts ==
    [materia_prima : {"resma"}, quantidade_uso : {100}, perda_percentual : {0}]

InsertProduto(db, form) ==
    [db EXCEPT !.produtos = Append(@,
        [tempo_producao_minutos |-> form.tempo_producao_minutos,
         usa_percentual_tinta |-> form.usa_percentual_tinta,
         percentual_tinta |-> form.percentual_tinta,
         margem_lucro_override |-> form.margem_lucro_override,
         custo_estimado_cache |-> 0, preco_sugerido_cache |-> 0])]

InsertComponente(db, pk, c) ==
    [db EXCEPT !.componentes = Append(@,
        [produto |-> pk, materia_prima |-> c.materia_prima,
         quantidade_uso |-> c.quantidade_uso, perda_percentual |-> c.perda_percentual])]

\* formset.save(): every component inserted, post_save fired after each
RECURSIVE SaveComponentes(_, _, _)
SaveComponentes(db, pk, cs) ==
    IF cs = <<>> THEN db
    ELSE SaveComponentes(_refresh_prod_cache(InsertComponente(db, pk, Head(cs)), pk),
                         pk, Tail(cs))

\* views.produto_create (POST, valid ProdutoForm); with an invalid formset the
\* saved product stays, the view returns normally and the transaction commits
produto_create ==
    /\ Len(produtos) < MaxProdutos
    /\ \E form \in ProdutoPosts :
       \E cs \in {<<>>} \cup {<<c>> : c \in {d \in ComponentePosts :
                                                d.materia_prima \in DOMAIN materias}} :
       \E formset_valid \in BOOLEAN :
          LET pk  == Len(produtos) + 1
              db1 == _refresh_prod_cache(InsertProduto(Banco, form), pk)
              db2 == SaveComponentes(db1, pk, cs)
              bd  == preco_sugerido(db2, pk)
              db3 == [GetOrCreate(db2) EXCEPT
                         !.produtos[pk].custo_estimado_cache = bd.custo_total,
                         !.produtos[pk].preco_sugerido_cache = bd.preco_final]
              \* produto.save(update_fields=...) fires post_save again
              db4 == _refresh_prod_cache(db3, pk)
          IN  Gravar(IF formset_valid THEN db4 ELSE db1)
    /\ UNCHANGED <<loja, ent, req, chamadores>>
    /\ res' = <<>>                                  \* the inputs of the price changed

\* ProdutoAdmin: the margin override is edited; post_save refreshes the cache
admin_produto_change ==
    /\ \E pk \in DOMAIN produtos : \E m \in {<<>>, <<50>>} :
          /\ m # produtos[pk].margem_lucro_override
          /\ Gravar(_refresh_prod_cache(
                 [Banco EXCEPT !.produtos[pk].margem_lucro_override = m], pk))
    /\ UNCHANGED <<loja, ent, req, chamadores>>
    /\ res' = <<>>                                  \* the inputs of the price changed

\* ComponenteInline: a component is added; post_save refreshes the cache
admin_componente_add ==
    /\ \E pk \in DOMAIN produtos : \E c \in ComponentePosts :
          /\ c.materia_prima \in DOMAIN materias
          /\ \A i \in DOMAIN componentes :                \* unique_together
                ~(componentes[i].produto = pk
                  /\ componentes[i].materia_prima = c.materia_prima)
          /\ Gravar(_refresh_prod_cache(InsertComponente(Banco, pk, c), pk))
    /\ UNCHANGED <<loja, ent, req, chamadores>>
    /\ res' = <<>>                                  \* the inputs of the price changed

\* ComponenteInline: a component is deleted; post_delete refreshes the cache
admin_componente_delete ==
    /\ \E i \in DOMAIN componentes :
          LET pk == componentes[i].produto
              db1 == [Banco EXCEPT !.componentes =
                         SubSeq(@, 1, i - 1) \o SubSeq(@, i + 1, Len(@))]
          IN  Gravar(_refresh_prod_cache(db1, pk))
    /\ UNCHANGED <<loja, ent, req, chamadores>>
    /\ res' = <<>>                                  \* the inputs of the price changed

\* the row ParametrosAdmin stores besides the defaults
ParametrosAlterados ==
    [ParametrosDefaults EXCEPT !.impostos_percentual_sobre_venda = 10,
                               !.taxa_cartao_percentual = 5,
                               !.acrescimo_padrao_percentual = 2,
                               !.arredondar_para = 5]

TabelaAlterada ==
    [renda_mensal_desejada |-> 2500, dias_trabalho_mes |-> 20, horas_por_dia |-> 6]

\* ParametrosAdmin: the organisation's row is added or edited (no signal)
admin_parametros_save ==
    /\ \E p \in {ParametrosDefaults, ParametrosAlterados} :
          /\ parametros # <<p>>
          /\ parametros' = <<p>>
    /\ UNCHANGED <<loja, ent, tabelas, materias, produtos, componentes, orcamentos,
                   itens, req, chamadores>>
    /\ res' = <<>>                                  \* the inputs of the price changed

\* TabelaHoraAdmin: the organisation's row is added or edited (no signal)
admin_tabela_save ==
    /\ \E t \in {TabelaDefaults, TabelaAlterada} :
          /\ tabelas # <<t>>
          /\ tabelas' = <<t>>
    /\ UNCHANGED <<loja, ent, parametros, materias, produtos, componentes, orcamentos,
                   itens, req, chamadores>>
    /\ res' = <<>>                                  \* the inputs of the price changed

\* ParametrosAdmin / TabelaHoraAdmin: the organisation's row is deleted
admin_parametros_delete ==
    /\ parametros # <<>>
    /\ parametros' = <<>>
    /\ UNCHANGED <<loja, ent, tabelas, materias, produtos, componentes, orcamentos,
                   itens, req, chamadores>>
    /\ res' = <<>>                                  \* the inputs of the price changed

admin_tabela_delete ==
    /\ tabelas # <<>>
    /\ tabelas' = <<>>
    /\ UNCHANGED <<loja, ent, parametros, materias, produtos, componentes, orcamentos,
                   itens, req, chamadores>>
    /\ res' = <<>>                                  \* the inputs of the price changed

\* views.produto_detail: computes the price; the only writes are the two
\* get_or_create calls. res keeps the Breakdown the request was shown and the
\* tables in which it created the default row, until an input of the price is
\* changed
produto_detail ==
    /\ \E pk \in DOMAIN produtos :
          /\ Gravar(GetOrCreate(Banco))
          /\ res' = <<[pk |-> pk, bd |-> preco_sugerido(Banco, pk),
                       criou |-> {t \in {"parametros", "tabelas"} : Banco[t] = <<>>}]>>
    /\ UNCHANGED <<loja, ent, req, chamadores>>

\* ItemOrcamento.subtotal: (quantidade * preco_unitario).quantize(TWO_PLACES)
subtotal(item) == RoundHalfEven(item.quantidade * item.preco_unitario, 100)

RECURSIVE SomaSubtotais(_)
SomaSubtotais(its) ==
    IF its = <<>> THEN 0 ELSE subtotal(Head(its)) + SomaSubtotais(Tail(its))

\* the price a view honouring the form field, then the cache, would store
PrecoDoFormOuCache(db, linha) ==
    IF linha.preco_unitario # <<>> THEN linha.preco_unitario[1]
    ELSE db.produtos[linha.produto].preco_sugerido_cache

\* the price the view stores on a line: always the computed one
PrecoDaLinha(db, linha) == preco_sugerido(db, linha.produto).preco_final

\* the loop over formset.save(commit=False): price computed, line saved
RECURSIVE SaveItens(_, _, _)
SaveItens(db, opk, linhas) ==
    IF linhas = <<>> THEN db
    ELSE LET l == Head(linhas)
             it == [orcamento |-> opk, produto |-> l.produto,
                    quantidade |-> l.quantidade,
                    preco_unitario |-> PrecoDaLinha(db, l)]
         IN  SaveItens([GetOrCreate(db) EXCEPT !.itens = Append(@, it)], opk, Tail(linhas))

\* the total with discount and surcharge added up instead of compounded
TotalAditivo(db, opk) ==
    LET orc == db.orcamentos[opk]
        total == SomaSubtotais(SelectSeq(db.itens, LAMBDA i : i.orcamento = opk))
    IN  RoundHalfEven(total * (100 - orc.desconto_percentual + orc.acrescimo_percentual),
                      100)

\* lines 258-264: the total over orc.itens.all(), discount, surcharge, quantize
TotalOrcamento(db, opk) ==
    LET orc == db.orcamentos[opk]
        total == SomaSubtotais(SelectSeq(db.itens, LAMBDA i : i.orcamento = opk))
    IN  RoundHalfEven(total * (100 - orc.desconto_percentual)
                            * (100 + orc.acrescimo_percentual), 10000)

OrcamentoPosts ==
    {[desconto_percentual |-> 0, acrescimo_percentual |-> 0],
     [desconto_percentual |-> 10, acrescimo_percentual |-> 5]}

\* the line forms posted: none filled in, one line, the two lines of scenario 3
\* (5 and 3 units), or a fractional quantity; preco_unitario is the optional form
\* field
LinhasPosts(pks) ==
    UNION {{<<>>,
            <<[produto |-> pk, quantidade |-> 500, preco_unitario |-> <<>>]>>,
            <<[produto |-> pk, quantidade |-> 500, preco_unitario |-> <<999>>],
              [produto |-> pk, quantidade |-> 300, preco_unitario |-> <<>>]>>,
            <<[produto |-> pk, quantidade |-> 150, preco_unitario |-> <<999>>]>>}
           : pk \in pks}

\* views.orcamento_create (POST, valid OrcamentoForm); with an invalid formset the
\* saved Orcamento stays, the view returns normally and the transaction commits
orcamento_create ==
    /\ Len(orcamentos) < MaxOrcamentos
    /\ \E form \in OrcamentoPosts : \E linhas \in LinhasPosts(DOMAIN produtos) :
       \E formset_valid \in BOOLEAN :
          LET opk == Len(orcamentos) + 1
              db1 == [Banco EXCEPT !.orcamentos = Append(@,
                         [desconto_percentual |-> form.desconto_percentual,
                          acrescimo_percentual |-> form.acrescimo_percentual,
                          valor_total_cache |-> 0])]
              db2 == SaveItens(db1, opk, linhas)
              db3 == [db2 EXCEPT !.orcamentos[opk].valor_total_cache =
                                     TotalOrcamento(db2, opk)]
          IN  /\ Gravar(IF formset_valid THEN db3 ELSE db1)
              /\ req' = IF formset_valid
                        THEN <<[linhas |-> linhas,
                                caches |-> [pk \in DOMAIN produtos |->
                                               produtos[pk].preco_sugerido_cache]]>>
                        ELSE <<>>
    /\ UNCHANGED <<loja, ent, res, chamadores>>

Init ==
    /\ ent = <<>> /\ res = <<>> /\ SemBanco

Next ==
    \/ materia_prima_create
    \/ admin_materia_change
    \/ produto_create
    \/ admin_produto_change
    \/ admin_componente_add
    \/ admin_componente_delete
    \/ admin_parametros_save
    \/ admin_tabela_save
    \/ admin_parametros_delete
    \/ admin_tabela_delete
    \/ produto_detail
    \/ orcamento_create

Spec == Init /\ [][Next]_vars

(***************************************************************************)
(* SpecCorrida: concurrent callers of preco_sugerido for one organisation.  *)
(* Each get_or_create is a SELECT, then an INSERT in a savepoint when no    *)
(* row was found, then a second SELECT when the INSERT hit the unique       *)
(* index. A caller inside transaction.atomic (produto_create,               *)
(* orcamento_create) commits its rows when the view returns; a caller in    *)
(* autocommit (produto_detail) commits each INSERT at once. An uncommitted  *)
(* row is invisible to the other callers' SELECTs and makes their INSERT of *)
(* the same key wait for the end of the transaction. A caller's local       *)
(* state: pc and alvo (the step and the table it is at), atomic, pend (the  *)
(* tables holding an uncommitted row of its own) and integrity_errors (the  *)
(* tables whose INSERT raised IntegrityError).                              *)
(***************************************************************************)

NumChamadores == 2

Chamadores == 1..NumChamadores

\* the committed rows of the table a get_or_create addresses
Linhas(alvo) == IF alvo = "parametros" THEN parametros ELSE tabelas

\* rows of table alvo that caller c sees: the committed ones and its own
Visiveis(c, alvo) ==
    Len(Linhas(alvo)) + (IF alvo \in chamadores[c].pend THEN 1 ELSE 0)

\* without the unique index an INSERT never fails
SemIndiceUnico(c, alvo) == FALSE

\* empresa = OneToOneField(Empresa): the unique index on empresa_id rejects a
\* second row of the organisation (IntegrityError)
IndiceUnicoRejeita(c, alvo) == Visiveis(c, alvo) > 0

\* another transaction holds an uncommitted row with the same key
OutroPendente(c, alvo) ==
    \E o \in Chamadores \ {c} : alvo \in chamadores[o].pend

Proximo(alvo) ==
    IF alvo = "parametros" THEN [pc |-> "get", alvo |-> "tabelas"]
    ELSE [pc |-> "calc", alvo |-> "tabelas"]

Avancar(c, passo) ==
    chamadores' = [chamadores EXCEPT ![c].pc = passo.pc, ![c].alvo = passo.alvo]

InitCorrida ==
    /\ ent = <<>> /\ res = <<>>
    /\ materias = <<>> /\ produtos = <<>> /\ componentes = <<>>
    /\ orcamentos = <<>> /\ itens = <<>> /\ req = <<>>
    /\ SemLoja
    /\ parametros \in {<<>>, <<ParametrosDefaults>>}
    /\ tabelas \in {<<>>, <<TabelaDefaults>>}
    /\ chamadores \in [Chamadores -> [pc : {"get"}, alvo : {"parametros"},
                                      atomic : BOOLEAN, pend : {{}},
                                      integrity_errors : {{}}]]

ParadoNaCorrida ==
    UNCHANGED <<loja, ent, res, materias, produtos, componentes, orcamentos, itens, req>>

\* self.get(**kwargs)
CorridaGet(c) ==
    /\ chamadores[c].pc = "get"
    /\ LET alvo == chamadores[c].alvo
       IN  IF Visiveis(c, alvo) = 1 THEN Avancar(c, Proximo(alvo))
           ELSE IF Visiveis(c, alvo) = 0
           THEN Avancar(c, [pc |-> "create", alvo |-> alvo])
           ELSE \* MultipleObjectsReturned leaves the view; its transaction rolls back
                chamadores' = [chamadores EXCEPT ![c].pc = "erro", ![c].pend = {}]
    /\ UNCHANGED <<parametros, tabelas>>
    /\ ParadoNaCorrida

\* with transaction.atomic(): self.create(**params)
CorridaCreate(c) ==
    /\ chamadores[c].pc = "create"
    /\ LET alvo == chamadores[c].alvo
           linha == IF alvo = "parametros" THEN ParametrosDefaults ELSE TabelaDefaults
       IN  IF IndiceUnicoRejeita(c, alvo)
           THEN /\ chamadores' = [chamadores EXCEPT                 \* IntegrityError
                                     ![c].pc = "reget",
                                     ![c].integrity_errors = @ \cup {alvo}]
                /\ UNCHANGED <<parametros, tabelas>>
           ELSE /\ ~OutroPendente(c, alvo)                           \* else the INSERT waits
                /\ IF chamadores[c].atomic
                   THEN /\ chamadores' = [chamadores EXCEPT
                                             ![c].pc = Proximo(alvo).pc,
                                             ![c].alvo = Proximo(alvo).alvo,
                                             ![c].pend = @ \cup {alvo}]
                        /\ UNCHANGED <<parametros, tabelas>>
                   ELSE /\ Avancar(c, Proximo(alvo))
                        /\ parametros' = IF alvo = "parametros"
                                         THEN Append(parametros, linha) ELSE parametros
                        /\ tabelas' = IF alvo = "tabelas"
                                      THEN Append(tabelas, linha) ELSE tabelas
    /\ ParadoNaCorrida

\* except IntegrityError: return self.get(**kwargs), or raise
CorridaReget(c) ==
    /\ chamadores[c].pc = "reget"
    /\ LET alvo == chamadores[c].alvo
       IN  IF Visiveis(c, alvo) = 1 THEN Avancar(c, Proximo(alvo))
           ELSE chamadores' = [chamadores EXCEPT ![c].pc = "erro", ![c].pend = {}]
    /\ UNCHANGED <<parametros, tabelas>>
    /\ ParadoNaCorrida

\* the price is computed and the view returns; an atomic caller commits its rows
CorridaCalc(c) ==
    /\ chamadores[c].pc = "calc"
    /\ chamadores' = [chamadores EXCEPT ![c].pc = "done", ![c].pend = {}]
    /\ parametros' = IF "parametros" \in chamadores[c].pend
                     THEN Append(parametros, ParametrosDefaults) ELSE parametros
    /\ tabelas' = IF "tabelas" \in chamadores[c].pend
                  THEN Append(tabelas, TabelaDefaults) ELSE tabelas
    /\ ParadoNaCorrida

NextCorrida ==
    \E c \in Chamadores :
        CorridaGet(c) \/ CorridaCreate(c) \/ CorridaReget(c) \/ CorridaCalc(c)

SpecCorrida == InitCorrida /\ [][NextCorrida]_vars

(***************************************************************************)
(* SpecBorda: preco_sugerido on degenerate and out-of-range input: no      *)
(* components, no production time, no coverage, a month of zero hours, a   *)
(* conversion denominator of zero, and the negative values the columns     *)
(* without validators accept (margem_lucro_override,                       *)
(* ComponenteProduto.perda_percentual, fator_conversao_para_base).         *)
(* After the first computation a percentage of the pipeline or the wastage *)
(* of a component is raised and the price is computed again.               *)
(***************************************************************************)

PerdasBorda == {-200, 0, 50}

MargensBorda == {-150, 50}

ComponentesBorda ==
    {<<>>}
    \cup {<<[mp |-> mp, quantidade_uso |-> 100, perda_percentual |-> perda]>> :
             mp \in {MPResma, MPFatorZero, MPFatorNegativo}, perda \in PerdasBorda}
    \cup {<<[mp |-> MPResma, quantidade_uso |-> 100, perda_percentual |-> 0],
            [mp |-> MPFatorZero, quantidade_uso |-> 100, perda_percentual |-> perda]>> :
             perda \in PerdasBorda}

ProdutoBorda ==
    [tempo_producao_minutos : {0, 10}, usa_percentual_tinta : BOOLEAN,
     percentual_tinta : {0, 50},
     margem_lucro_override : {<<>>} \cup {<<m>> : m \in MargensBorda}]

ParametrosBorda ==
    [margem_lucro_padrao : {30, 40}, acrescimo_padrao_percentual : {0, 2},
     impostos_percentual_sobre_venda : {0, 10}, taxa_cartao_percentual : {0, 5},
     custo_energia_mensal : {0}, custo_internet_mensal : {0},
     outros_custos_fixos_mensais : {0}, custo_tinta_por_percentual : {0, 500},
     arredondar_para : {0, 5, 100}]

\* the default table and a month without working days
TabelaBorda ==
    {TabelaDefaults,
     [renda_mensal_desejada |-> 3000, dias_trabalho_mes |-> 0, horas_por_dia |-> 8]}

\* what one call computes: every local of preco_sugerido, the Breakdown returned
\* and the cost per base unit of each component's material
ResultadoBorda(e) ==
    LET c == calculo(e.produto, e.comps, e.parametros, e.tabela)
    IN  [calc |-> c, bd |-> Breakdown(c),
         unit |-> [i \in DOMAIN e.comps |-> custo_unitario_base(e.comps[i].mp)]]

InitBorda ==
    /\ ent \in [produto : ProdutoBorda, comps : ComponentesBorda,
                parametros : ParametrosBorda, tabela : TabelaBorda]
    /\ res = <<>>
    /\ SemBanco

CalcularBorda ==
    /\ res = <<>>
    /\ res' = <<ResultadoBorda(ent)>>
    /\ UNCHANGED ent
    /\ BancoParado

\* ent with the margin in use raised: the override when the product has one, the
\* organisation's default otherwise
MargemAumentada(e) ==
    IF e.produto.margem_lucro_override # <<>>
    THEN {[e EXCEPT !.produto.margem_lucro_override = <<m>>] :
             m \in {x \in MargensBorda : x > e.produto.margem_lucro_override[1]}}
    ELSE {[e EXCEPT !.parametros.margem_lucro_padrao = m] :
             m \in {x \in {30, 40} : x > e.parametros.margem_lucro_padrao}}

\* ent with the sales tax, the card fee or the standard surcharge raised
TaxaAumentada(e) ==
    {[e EXCEPT !.parametros.impostos_percentual_sobre_venda = x] :
        x \in {y \in {0, 10} : y > e.parametros.impostos_percentual_sobre_venda}}
    \cup {[e EXCEPT !.parametros.taxa_cartao_percentual = x] :
        x \in {y \in {0, 5} : y > e.parametros.taxa_cartao_percentual}}
    \cup {[e EXCEPT !.parametros.acrescimo_padrao_percentual = x] :
        x \in {y \in {0, 2} : y > e.parametros.acrescimo_padrao_percentual}}

\* one of the four percentages of the pipeline is raised, the price computed again
AumentarPercentual ==
    /\ res # <<>>
    /\ ent' \in MargemAumentada(ent) \cup TaxaAumentada(ent)
    /\ res' = <<ResultadoBorda(ent')>>
    /\ BancoParado

\* the wastage percent of one component is raised, the price computed again
AumentarPerda ==
    /\ res # <<>>
    /\ \E i \in DOMAIN ent.comps :
       \E perda \in {x \in PerdasBorda : x > ent.comps[i].perda_percentual} :
          ent' = [ent EXCEPT !.comps[i].perda_percentual = perda]
    /\ res' = <<ResultadoBorda(ent')>>
    /\ BancoParado

NextBorda == CalcularBorda \/ AumentarPercentual \/ AumentarPerda

SpecBorda == InitBorda /\ [][NextBorda]_vars

(***************************************************************************)
(* SpecArredondar: _arredondar applied to a value and again to its result  *)
(***************************************************************************)

\* valor: 4-decimal amounts from -0.1000 to 0.2000 in steps of 0.0025, so that
\* multiples of the increment, ties and neighbours of ties all occur;
\* passo: arredondar_para (the column has no validator)
InitArredondar ==
    /\ ent \in [valor : {25 * k : k \in -40..80}, passo : {-5, 0, 1, 5, 25, 100}]
    /\ res = <<>>
    /\ SemBanco

AplicarArredondar ==
    /\ res = <<>>
    /\ "passo" \in DOMAIN ent
    /\ LET um == arredondar(ent.valor, ent.passo)
       IN  res' = <<[um |-> um, dois |-> arredondar(100 * um, ent.passo)]>>
    /\ UNCHANGED ent
    /\ BancoParado

NextArredondar == AplicarArredondar

SpecArredondar == InitArredondar /\ [][NextArredondar]_vars

(***************************************************************************)
(* SpecFalha: the handlers that save a Produto or a ComponenteProduto,     *)
(* with a write of the cache columns that may fail (a database error, a    *)
(* value that does not fit the column). Every one of them runs inside      *)
(* transaction.atomic: produto_create by its decorator, the admin by       *)
(* ModelAdmin.changeform_view. A receiver swallows the exception (except    *)
(* Exception: pass), but QuerySet.update has by then marked the            *)
(* transaction for rollback: the next query of the request raises          *)
(* TransactionManagementError, and a block left without a further query    *)
(* is rolled back on exit. The write in produto_create itself (lines       *)
(* 78-81) is not guarded at all. res keeps the outcome of the last request *)
(* that saved: the handler, the write that failed, whether an exception    *)
(* left the view, whether the request's changes were committed.            *)
(***************************************************************************)

\* the writes of the cache columns during produto_create: the receiver after
\* form.save(), the receiver after a component is saved, the view's own
\* produto.save(update_fields=...), the receiver that save fires
FalhasProdutoCreate(cs) ==
    {"nenhuma", "post_save", "view", "post_save_cache"}
    \cup (IF cs = <<>> THEN {} ELSE {"componente"})

\* the receiver with the UPDATE failing: preco_sugerido has run (the default rows
\* are there), the cache columns keep their values
RefreshFalho(db, pk) == GetOrCreate(db)

\* an exception leaves produto_create: raised by the view's own write, or by the
\* query that follows a swallowed failure (preco_sugerido at line 78)
LevantaEmProdutoCreate(falha) == falha \in {"post_save", "componente", "view"}

\* the row of res for one request
Desfecho(op, falha, levantou, ok) ==
    [op |-> op, falha |-> falha, levantou |-> levantou, ok |-> ok]

\* views.produto_create (POST, valid form and formset) with one of the cache
\* writes failing, or none
produto_create_com_falha ==
    /\ Len(produtos) < MaxProdutos
    /\ \E form \in ProdutoPosts :
       \E cs \in {<<>>} \cup {<<c>> : c \in {d \in ComponentePosts :
                                                d.materia_prima \in DOMAIN materias}} :
       \E falha \in FalhasProdutoCreate(cs) :
          LET pk  == Len(produtos) + 1
              db0 == InsertProduto(Banco, form)
              db1 == IF falha = "post_save" THEN RefreshFalho(db0, pk)
                     ELSE _refresh_prod_cache(db0, pk)
              db2 == SaveComponentes(db1, pk, cs)
              bd  == preco_sugerido(db2, pk)
              db3 == [GetOrCreate(db2) EXCEPT
                         !.produtos[pk].custo_estimado_cache = bd.custo_total,
                         !.produtos[pk].preco_sugerido_cache = bd.preco_final]
              db4 == IF falha = "post_save_cache" THEN RefreshFalho(db3, pk)
                     ELSE _refresh_prod_cache(db3, pk)
              \* the atomic block commits only when nothing failed
              ok  == falha = "nenhuma"
          IN  /\ Gravar(IF ok THEN db4 ELSE Banco)
              /\ res' = <<Desfecho("produto_create", falha,
                                   LevantaEmProdutoCreate(falha), ok)>>
    /\ UNCHANGED <<loja, ent, req, chamadores>>

\* ProdutoAdmin: the margin override is edited; the post_save receiver's write
\* may fail, and log_change is the next query
admin_produto_change_com_falha ==
    /\ \E pk \in DOMAIN produtos : \E m \in {<<>>, <<50>>} : \E falha \in BOOLEAN :
          /\ m # produtos[pk].margem_lucro_override
          /\ Gravar(IF falha THEN Banco
                    ELSE _refresh_prod_cache(
                             [Banco EXCEPT !.produtos[pk].margem_lucro_override = m], pk))
          /\ res' = <<Desfecho("produto_save", IF falha THEN "post_save" ELSE "nenhuma",
                               falha, ~falha)>>
    /\ UNCHANGED <<loja, ent, req, chamadores>>

\* ComponenteInline: a component is added; the post_save receiver's write may fail
admin_componente_add_com_falha ==
    /\ \E pk \in DOMAIN produtos : \E c \in ComponentePosts : \E falha \in BOOLEAN :
          /\ c.materia_prima \in DOMAIN materias
          /\ \A i \in DOMAIN componentes :                \* unique_together
                ~(componentes[i].produto = pk
                  /\ componentes[i].materia_prima = c.materia_prima)
          /\ Gravar(IF falha THEN Banco
                    ELSE _refresh_prod_cache(InsertComponente(Banco, pk, c), pk))
          /\ res' = <<Desfecho("componente_save", IF falha THEN "post_save" ELSE "nenhuma",
                               falha, ~falha)>>
    /\ UNCHANGED <<loja, ent, req, chamadores>>

\* ComponenteInline: a component is deleted; the post_delete receiver's write may
\* fail
admin_componente_delete_com_falha ==
    /\ \E i \in DOMAIN componentes : \E falha \in BOOLEAN :
          LET pk == componentes[i].produto
              db1 == [Banco EXCEPT !.componentes =
                         SubSeq(@, 1, i - 1) \o SubSeq(@, i + 1, Len(@))]
          IN  /\ Gravar(IF falha THEN Banco ELSE _refresh_prod_cache(db1, pk))
              /\ res' = <<Desfecho("componente_delete",
                                   IF falha THEN "post_delete" ELSE "nenhuma",
                                   falha, ~falha)>>
    /\ UNCHANGED <<loja, ent, req, chamadores>>

NextFalha ==
    \/ materia_prima_create
    \/ admin_materia_change
    \/ admin_parametros_save
    \/ admin_tabela_save
    \/ produto_create_com_falha
    \/ admin_produto_change_com_falha
    \/ admin_componente_add_com_falha
    \/ admin_componente_delete_com_falha

SpecFalha == Init /\ [][NextFalha]_vars

(***************************************************************************)
(* SpecMateria: MateriaPrimaForm.clean followed by custo_unitario_base of   *)
(* the row the form saves                                                  *)
(***************************************************************************)

\* what the material form posts: a purchase in reams or boxes (rolls), used by
\* the sheet, the metre or the square metre; the factor column is required and
\* has no validator; the roll width is a whole number of metres
MateriaFormDomain ==
    [nome : {"mp"}, unidade_compra : {"RESMA", "CX"}, quantidade_compra : {1, 2, 3},
     custo_compra : {2500, 3000}, unidade_base : {"FOLHA", "M", "M2"},
     fator_conversao_para_base : {-2, 0, 500}, perda_percentual : {0},
     folhas_por_resma : {<<>>, <<500>>}, largura_cm : {<<>>, <<100>>},
     comprimento_m : {<<>>, <<50>>}]

InitMateria ==
    /\ ent \in [data : MateriaFormDomain]
    /\ res = <<>>
    /\ SemBanco

\* form.is_valid() and form.save(), then the property read on the saved row
SalvarMateria ==
    /\ res = <<>>
    /\ DOMAIN ent = {"data"}
    /\ res' = <<[linha |-> LinhaMateria(ent.data),
                 unit |-> custo_unitario_base(LinhaMateria(ent.data))]>>
    /\ UNCHANGED ent
    /\ BancoParado

NextMateria == SalvarMateria

SpecMateria == InitMateria /\ [][NextMateria]_vars

(***************************************************************************)
(* SpecDetalhe: the materials table of views.produto_detail beside the     *)
(* materials amount of the Breakdown, on the same components               *)
(***************************************************************************)

\* one row of comp_rows: unit has 4 decimals; qtd_efetiva is kept in hundredths
\* (with a whole quantity and a whole percent its quantization to 4 decimals
\* changes nothing); their product is quantized half-up to cents
subtotal_da_linha(comp) ==
    LET unit        == custo_unitario_base(comp.mp)
        qtd_efetiva == comp.quantidade_uso * (100 + comp.perda_percentual)
    IN  RoundHalfUp(unit * qtd_efetiva, 10000)

\* total_materiais += subtotal, over the components in order
RECURSIVE total_materiais(_)
total_materiais(comps) ==
    IF comps = <<>> THEN 0
    ELSE subtotal_da_linha(Head(comps)) + total_materiais(Tail(comps))

InitDetalhe ==
    /\ ent \in [linhas : ListasDe(MateriasDomain)]
    /\ res = <<>>
    /\ SemBanco

\* bd = preco_sugerido(produto) and the loop over produto.componentes of the
\* same request; both totals in cents
ItemizarMateriais ==
    /\ res = <<>>
    /\ DOMAIN ent = {"linhas"}
    /\ res' = <<[bd_materiais |-> QTwo(custo_materiais(ent.linhas)),
                 comp_rows |-> [i \in DOMAIN ent.linhas |-> subtotal_da_linha(ent.linhas[i])],
                 total_materiais |-> total_materiais(ent.linhas)]>>
    /\ UNCHANGED ent
    /\ BancoParado

NextDetalhe == ItemizarMateriais

SpecDetalhe == InitDetalhe /\ [][NextDetalhe]_vars

(***************************************************************************)
(* SpecComponente: ComponenteProdutoForm in quantity mode                  *)
(***************************************************************************)

\* what one component form posts in quantity mode: the material's base unit, the
\* model field quantidade_uso, the helper fields paginas and itens_por_folha
\* (<<>> when left blank) and the duplex checkbox (ticked or not)
ComponenteFormDomain ==
    [unidade_base : {"FOLHA", "UN"}, quantidade_uso : {<<>>, <<0>>, <<3>>},
     paginas : {<<>>, <<-3>>, <<0>>, <<1>>, <<7>>, <<8>>},
     itens_por_folha : {<<>>, <<-1>>, <<0>>, <<1>>, <<2>>, <<3>>},
     duplex : BOOLEAN]

\* the field validation with the two min_value=1 validators left out
ErrosDeCampoSemMinValue(data) ==
    {f \in {"quantidade_uso"} : data[f] = <<>>}

\* the fields whose own validation fails before clean() runs: quantidade_uso is
\* required, paginas and itens_por_folha have min_value=1
ErrosDeCampo(data) ==
    {f \in {"quantidade_uso"} : data[f] = <<>>}
        \cup {f \in {"paginas", "itens_por_folha"} : data[f] # <<>> /\ data[f][1] < 1}

\* _int(raw) or 1
ItensOuUm(data) ==
    IF data.itens_por_folha = <<>> \/ data.itens_por_folha[1] = 0
    THEN 1 ELSE data.itens_por_folha[1]

\* `if pags:` a page count that is neither blank nor zero
TemPaginas(data) == data.paginas # <<>> /\ data.paginas[1] # 0

\* denom = itens * (2 if is_duplex else 1)
denom(data) == ItensOuUm(data) * (IF data.duplex THEN 2 ELSE 1)

\* the else branch of clean() (lines 127-147): <<>> when it raises
\* ValidationError, else <<quantidade_uso>> as left in cleaned_data
QuantidadeLimpa(data) ==
    LET q  == IF "quantidade_uso" \in ErrosDeCampo(data) THEN <<>> ELSE data.quantidade_uso
        calcula == data.unidade_base = "FOLHA" /\ TemPaginas(data)
        folhas == (data.paginas[1] + denom(data) - 1) \div denom(data)
        q2 == IF calcula THEN <<folhas>> ELSE q
    IN  IF calcula /\ denom(data) <= 0 THEN <<>>
        ELSE IF q2 = <<>> \/ q2[1] <= 0 THEN <<>>
        ELSE q2

\* form.is_valid(): no field error and no ValidationError from clean()
ComponenteProdutoFormClean(data) ==
    [valid |-> ErrosDeCampo(data) = {} /\ QuantidadeLimpa(data) # <<>>,
     quantidade_uso |-> QuantidadeLimpa(data)]

InitComponente ==
    /\ ent \in [form : ComponenteFormDomain]
    /\ res = <<>>
    /\ SemBanco

ValidarComponente ==
    /\ res = <<>>
    /\ DOMAIN ent = {"form"}
    /\ res' = <<ComponenteProdutoFormClean(ent.form)>>
    /\ UNCHANGED ent
    /\ BancoParado

NextComponente == ValidarComponente

SpecComponente == InitComponente /\ [][NextComponente]_vars

(***************************************************************************)
(* vendas: orders, the payment gateway and download links                  *)
(***************************************************************************)

MaxOrders == 2
MaxPayments == 2
MaxNow == 3

\* get_or_reuse_pending_order: expires_at = now + timedelta(days=2)
DiasDoPedido == 2

\* DownloadLink.create_for_order(order, days_valid=7)
DiasDoLink == 7

\* DownloadLink.max_downloads, default
MaxDownloadsDefault == 5

\* the tables of vendas and the gateway as one value
Loja ==
    [now |-> now, product |-> product, orders |-> orders, payments |-> payments,
     links |-> links]

GravarLoja(db) ==
    /\ now' = db.now /\ product' = db.product /\ orders' = db.orders
    /\ payments' = db.payments /\ links' = db.links

PrecificacaoParada ==
    UNCHANGED <<ent, parametros, tabelas, materias, produtos, componentes,
                orcamentos, itens, req, chamadores>>

\* one digital product; price in cents; promo_price is <<>> when null
ProductDomain ==
    {[price |-> 1000, promo_price |-> <<>>, promo_active |-> FALSE],
     [price |-> 1000, promo_price |-> <<800>>, promo_active |-> TRUE],
     [price |-> 1000, promo_price |-> <<800>>, promo_active |-> FALSE]}

\* views._effective_price: the promotional price when it is set (and not zero)
\* and the promotion is active, else the price
_effective_price(p) ==
    IF p.promo_price # <<>> /\ p.promo_price[1] # 0 /\ p.promo_active
    THEN p.promo_price[1]
    ELSE p.price

\* Order.is_expired with timezone.now() = t
is_expired(order, t) == order.status = "pending" /\ t > order.expires_at

\* DownloadLink.create_for_order
create_for_order(db, pk) ==
    [db EXCEPT !.links = [k \in DOMAIN @ \cup {pk} |->
        IF k = pk
        THEN [download_count |-> 0, max_downloads |-> MaxDownloadsDefault,
              expires_at |-> db.now + DiasDoLink]
        ELSE @[k]]]

\* Order.mark_paid (the product is digital): the status is written unless it is
\* already "paid"; the download link is created when the order has none
mark_paid(db, pk) ==
    LET db1 == [db EXCEPT !.orders[pk].status = "paid"]
    IN  IF pk \in DOMAIN db1.links THEN db1 ELSE create_for_order(db1, pk)

\* Order.mark_cancelled: the status is written unless it is already "cancelled"
mark_cancelled(db, pk) == [db EXCEPT !.orders[pk].status = "cancelled"]

\* if status == "approved": mark_paid()
\* elif status in {"rejected", "cancelled", "canceled"}: mark_cancelled()
aplicar_status(db, pk, status) ==
    IF status = "approved" THEN mark_paid(db, pk)
    ELSE IF status \in {"rejected", "cancelled"} THEN mark_cancelled(db, pk)
    ELSE db

\* the queryset of cancel_unpaid_orders with expires_at__lte in place of
\* expires_at__lt
vencidos_ou_no_limite(db) ==
    {pk \in DOMAIN db.orders :
        db.orders[pk].status = "pending" /\ db.orders[pk].expires_at <= db.now}

\* Order.objects.filter(status="pending", expires_at__lt=now)
vencidos(db) ==
    {pk \in DOMAIN db.orders :
        db.orders[pk].status = "pending" /\ db.orders[pk].expires_at < db.now}

\* base_qs of get_or_reuse_pending_order (one product, one customer)
base_qs(db, payment_type) ==
    {pk \in DOMAIN db.orders :
        /\ db.orders[pk].payment_type = payment_type
        /\ db.orders[pk].status = "pending"
        /\ db.orders[pk].expires_at >= db.now}

\* .order_by("-created_at").first(): <<>> or <<pk, the row as read>>
first(db, qs) ==
    IF qs = {} THEN <<>>
    ELSE LET pk == CHOOSE k \in qs : \A j \in qs : j <= k
         IN  <<pk, db.orders[pk]>>

\* Order.objects.create(...) of get_or_reuse_pending_order
NovoPedido(db, payment_type) ==
    [status |-> "pending", payment_type |-> payment_type,
     amount |-> _effective_price(db.product),
     expires_at |-> db.now + DiasDoPedido,
     payment_id |-> <<>>, preference_id |-> <<>>]

\* create_pix_payment(product, customer, order, request): order is the object the
\* caller holds; nothing is done when it already has a payment_id; the amount is
\* saved before the gateway is called; mp_ok is whether payment().create answers
\* 200/201
create_pix_payment(db, pk, order, mp_ok) ==
    IF order.payment_id # <<>> THEN db
    ELSE LET current_price == _effective_price(db.product)
             db1 == IF order.amount # current_price
                    THEN [db EXCEPT !.orders[pk].amount = current_price]
                    ELSE db
             id  == Len(db.payments) + 1
         IN  IF ~mp_ok THEN db1
             ELSE [db1 EXCEPT
                     !.payments = Append(@, [external_reference |-> pk,
                                             status |-> "pending",
                                             transaction_amount |-> current_price]),
                     !.orders[pk].payment_id = <<id>>]

\* _refresh_pix_from_mp(order): the status part
_refresh_pix_from_mp(db, pk, order) ==
    IF order.payment_id = <<>> THEN db
    ELSE IF order.status = "pending"
    THEN aplicar_status(db, pk, db.payments[order.payment_id[1]].status)
    ELSE db

\* checkout_view from get_or_reuse_pending_order on (lines 571-604), existing
\* being what base_qs.first() returned
ConcluirCheckout(db, payment_type, existing, mp_ok) ==
    LET unit_price == _effective_price(db.product)
        created == existing = <<>>
        pk    == IF created THEN Len(db.orders) + 1 ELSE existing[1]
        order == IF created THEN NovoPedido(db, payment_type) ELSE existing[2]
        db1   == IF created THEN [db EXCEPT !.orders = Append(@, order)] ELSE db
        db2   == IF order.amount # unit_price
                 THEN [db1 EXCEPT !.orders[pk].amount = unit_price]
                 ELSE db1
        order2 == [order EXCEPT !.amount = unit_price]
    IN  IF payment_type = "card" THEN db2
        ELSE create_pix_payment(db2, pk, order2, mp_ok)

\* whether a call of the gateway's payment().create may succeed: the number of
\* payments is bounded
RespostasDoMP == IF Len(payments) < MaxPayments THEN BOOLEAN ELSE {FALSE}

SemPrecificacao ==
    /\ ent = <<>>
    /\ parametros = <<>> /\ tabelas = <<>> /\ materias = <<>> /\ produtos = <<>>
    /\ componentes = <<>> /\ orcamentos = <<>> /\ itens = <<>>
    /\ req = <<>> /\ chamadores = <<>>

(***************************************************************************)
(* SpecLoja: the handlers of vendas, one request at a time, the clock, the *)
(* product's price and what buyers and the gateway do                      *)
(***************************************************************************)

InitLoja ==
    /\ SemPrecificacao
    /\ res = <<>>
    /\ now = 0
    /\ product = [price |-> 1000, promo_price |-> <<>>, promo_active |-> FALSE]
    /\ orders = <<>> /\ payments = <<>> /\ links = <<>> /\ requests = <<>>

\* a day passes
Tick ==
    /\ now < MaxNow
    /\ now' = now + 1
    /\ res' = <<>>
    /\ UNCHANGED <<product, orders, payments, links, requests>>
    /\ PrecificacaoParada

\* ProductAdmin: the price or the promotion is edited
admin_product_change ==
    /\ \E p \in ProductDomain :
          /\ p # product
          /\ _effective_price(p) # _effective_price(product)
          /\ product' = p
    /\ res' = <<>>
    /\ UNCHANGED <<now, orders, payments, links, requests>>
    /\ PrecificacaoParada

\* checkout_view (POST, valid form), as one step
checkout_view ==
    /\ \E payment_type \in {"pix", "card"} : \E mp_ok \in RespostasDoMP :
          LET existing == first(Loja, base_qs(Loja, payment_type))
          IN  /\ existing = <<>> => Len(orders) < MaxOrders
              /\ GravarLoja(ConcluirCheckout(Loja, payment_type, existing, mp_ok))
    /\ res' = <<>>
    /\ UNCHANGED requests
    /\ PrecificacaoParada

\* start_card_checkout: an expired order is cancelled; otherwise, unless the order
\* is paid or has a preference already, a preference is created for order.amount
start_card_checkout ==
    /\ \E pk \in DOMAIN orders : \E mp_ok \in BOOLEAN :
          LET order == orders[pk]
          IN  /\ order.payment_type = "card"
              /\ GravarLoja(
                   IF is_expired(order, now) THEN mark_cancelled(Loja, pk)
                   ELSE IF order.status = "paid" \/ order.preference_id # <<>> \/ ~mp_ok
                   THEN Loja
                   ELSE [Loja EXCEPT !.orders[pk].preference_id = <<order.amount>>])
    /\ res' = <<>>
    /\ UNCHANGED requests
    /\ PrecificacaoParada

\* the buyer pays at the gateway's checkout page of a preference that has not
\* expired (expiration_date_to = order.expires_at): a payment appears there
buyer_pays_card ==
    /\ Len(payments) < MaxPayments
    /\ \E pk \in DOMAIN orders : \E status \in {"approved", "rejected"} :
          /\ orders[pk].preference_id # <<>>
          /\ now <= orders[pk].expires_at
          /\ payments' = Append(payments,
                [external_reference |-> pk, status |-> status,
                 transaction_amount |-> orders[pk].preference_id[1]])
    /\ res' = <<>>
    /\ UNCHANGED <<now, product, orders, links, requests>>
    /\ PrecificacaoParada

\* the gateway settles a payment that was waiting
gateway_update ==
    /\ \E id \in DOMAIN payments : \E status \in {"approved", "cancelled"} :
          /\ payments[id].status = "pending"
          /\ payments' = [payments EXCEPT ![id].status = status]
    /\ res' = <<>>
    /\ UNCHANGED <<now, product, orders, links, requests>>
    /\ PrecificacaoParada

\* mp_webhook: a notification about any payment the gateway knows, as often as
\* the gateway cares to send it; the order is found by external_reference
mp_webhook ==
    /\ \E id \in DOMAIN payments :
          LET pk == payments[id].external_reference
          IN  GravarLoja(IF is_expired(orders[pk], now)
                         THEN mark_cancelled(Loja, pk)
                         ELSE aplicar_status(Loja, pk, payments[id].status))
    /\ res' = <<>>
    /\ UNCHANGED requests
    /\ PrecificacaoParada

\* mp_return: the buyer's browser comes back with payment_id and
\* external_reference of a payment
mp_return ==
    /\ \E id \in DOMAIN payments :
          GravarLoja(aplicar_status(Loja, payments[id].external_reference,
                                    payments[id].status))
    /\ res' = <<>>
    /\ UNCHANGED requests
    /\ PrecificacaoParada

sync_payment_status_from_mp(db, pk) ==
    IF db.orders[pk].status # "pending" \/ db.orders[pk].payment_id = <<>> THEN db
    ELSE aplicar_status(db, pk, db.payments[db.orders[pk].payment_id[1]].status)

\* order_status: the polling endpoint
order_status ==
    /\ \E pk \in DOMAIN orders :
          GravarLoja(IF is_expired(orders[pk], now)
                     THEN mark_cancelled(Loja, pk)
                     ELSE sync_payment_status_from_mp(Loja, pk))
    /\ res' = <<>>
    /\ UNCHANGED requests
    /\ PrecificacaoParada

\* payment_pending: the page that shows the Pix QR code
payment_pending ==
    /\ \E pk \in DOMAIN orders : \E mp_ok \in RespostasDoMP :
          LET order == orders[pk]
              db1   == create_pix_payment(Loja, pk, order, mp_ok)
          IN  GravarLoja(
                IF is_expired(order, now) THEN mark_cancelled(Loja, pk)
                ELSE IF order.status = "pending" /\ order.payment_type = "pix"
                THEN IF order.payment_id # <<>>
                     THEN _refresh_pix_from_mp(Loja, pk, order)
                     ELSE IF mp_ok THEN _refresh_pix_from_mp(db1, pk, db1.orders[pk])
                     ELSE db1
                ELSE Loja)
    /\ res' = <<>>
    /\ UNCHANGED requests
    /\ PrecificacaoParada

\* manage.py cancel_unpaid_orders: one UPDATE; the command prints the count
cancel_unpaid_orders ==
    /\ orders # <<>>
    /\ orders' = [pk \in DOMAIN orders |->
                     IF pk \in vencidos(Loja)
                     THEN [orders[pk] EXCEPT !.status = "cancelled"]
                     ELSE orders[pk]]
    /\ res' = <<[count |-> Cardinality(vencidos(Loja))]>>
    /\ UNCHANGED <<now, product, payments, links, requests>>
    /\ PrecificacaoParada

NextLoja ==
    \/ Tick
    \/ admin_product_change
    \/ checkout_view
    \/ start_card_checkout
    \/ buyer_pays_card
    \/ gateway_update
    \/ mp_webhook
    \/ mp_return
    \/ order_status
    \/ payment_pending
    \/ cancel_unpaid_orders

SpecLoja == InitLoja /\ [][NextLoja]_vars

(***************************************************************************)
(* SpecCheckout: checkout submissions of the same customer in flight at    *)
(* the same time; the SELECT of get_or_reuse_pending_order and what        *)
(* follows it are separate steps, as no lock or constraint joins them      *)
(***************************************************************************)

NumRequests == 2

Requests == 1..NumRequests

InitCheckout ==
    /\ SemPrecificacao
    /\ res = <<>>
    /\ now = 0
    /\ product = [price |-> 1000, promo_price |-> <<>>, promo_active |-> FALSE]
    /\ orders = <<>> /\ payments = <<>> /\ links = <<>>
    /\ requests = [r \in Requests |->
                      [pc |-> "start", payment_type |-> "pix", existing |-> <<>>]]

\* a POST to checkout_view arrives and runs up to base_qs.first()
checkout_select ==
    /\ \E r \in Requests : \E payment_type \in {"pix", "card"} :
          /\ requests[r].pc \in {"start", "done"}
          /\ requests' = [requests EXCEPT ![r] =
                [pc |-> "select", payment_type |-> payment_type,
                 existing |-> first(Loja, base_qs(Loja, payment_type))]]
    /\ UNCHANGED <<res, now, product, orders, payments, links>>
    /\ PrecificacaoParada

\* the request goes on: the order found is returned, or one is created; the
\* amount is synchronised and, for Pix, the payment is created
checkout_finish ==
    /\ \E r \in Requests : \E mp_ok \in RespostasDoMP :
          /\ requests[r].pc = "select"
          /\ requests[r].existing = <<>> => Len(orders) < MaxOrders
          /\ GravarLoja(ConcluirCheckout(Loja, requests[r].payment_type,
                                         requests[r].existing, mp_ok))
          /\ requests' = [requests EXCEPT ![r].pc = "done"]
    /\ UNCHANGED res
    /\ PrecificacaoParada

NextCheckout ==
    \/ checkout_select
    \/ checkout_finish
    \/ Tick

SpecCheckout == InitCheckout /\ [][NextCheckout]_vars

(***************************************************************************)
(* SpecDownload: secure_download requests for one token in flight at the   *)
(* same time; the SELECT of the link and the UPDATE of download_count are  *)
(* separate steps                                                          *)
(***************************************************************************)

\* is_valid with download_count <= max_downloads
is_valid_ate_o_limite(db, link, pk) ==
    /\ db.orders[pk].status = "paid"
    /\ link.download_count <= link.max_downloads
    /\ db.now < link.expires_at

\* DownloadLink.is_valid() on the object the request holds; self.order is
\* fetched when it is called
is_valid(db, link, pk) ==
    /\ db.orders[pk].status = "paid"
    /\ link.download_count < link.max_downloads
    /\ db.now < link.expires_at

\* a paid order of the digital product and its link, with max_downloads as
\* edited in DownloadLinkAdmin
InitDownload ==
    /\ SemPrecificacao
    /\ res = <<>>
    /\ now = 0
    /\ product = [price |-> 1000, promo_price |-> <<>>, promo_active |-> FALSE]
    /\ orders = <<[status |-> "paid", payment_type |-> "pix", amount |-> 1000,
                   expires_at |-> 2, payment_id |-> <<1>>, preference_id |-> <<>>]>>
    /\ payments = <<[external_reference |-> 1, status |-> "approved",
                     transaction_amount |-> 1000]>>
    /\ \E m \in {1, 2} : \E e \in {2, DiasDoLink} :
          links = <<[download_count |-> 0, max_downloads |-> m, expires_at |-> e]>>
    /\ requests = [r \in Requests |-> [pc |-> "start", link |-> <<>>]]

\* secure_download up to the validity test: the link is read; an invalid link
\* is answered with 404
secure_download_get ==
    /\ \E r \in Requests : \E pk \in DOMAIN links :
          /\ requests[r].pc # "signing"
          /\ requests' = [requests EXCEPT ![r] =
                [pc |-> IF is_valid(Loja, links[pk], pk) THEN "signing" ELSE "not_found",
                 link |-> <<pk, links[pk]>>]]
    /\ UNCHANGED <<res, now, product, orders, payments, links>>
    /\ PrecificacaoParada

\* the rest of secure_download: when a signed URL is obtained the count the
\* request read, plus one, is saved (update_fields=["download_count"]) and the
\* browser is redirected; otherwise 404
secure_download_save ==
    /\ \E r \in Requests : \E url \in BOOLEAN :
          LET pk   == requests[r].link[1]
              link == requests[r].link[2]
          IN  /\ requests[r].pc = "signing"
              /\ links' = IF url
                          THEN [links EXCEPT ![pk].download_count = link.download_count + 1]
                          ELSE links
              /\ requests' = [requests EXCEPT
                                ![r].pc = IF url THEN "redirected" ELSE "not_found"]
    /\ UNCHANGED <<res, now, product, orders, payments>>
    /\ PrecificacaoParada

NextDownload ==
    \/ secure_download_get
    \/ secure_download_save
    \/ Tick

SpecDownload == InitDownload /\ [][NextDownload]_vars

(***************************************************************************)
(* Properties                                                              *)
(***************************************************************************)

\* x is n/d (d > 0) rounded to an integer with ties away from zero
EhHalfUp(x, n, d) ==
    IF n >= 0
    THEN 2 * d * x - d <= 2 * n /\ 2 * n < 2 * d * x + d
    ELSE 2 * d * x - d < 2 * n /\ 2 * n <= 2 * d * x + d

\* x is an integer nearest to n/d (d > 0), whichever way a tie goes
EhProximo(x, n, d) == 2 * Abs(x * d - n) <= d

\* C1: preco_sugerido applies margin, sales tax, card fee and standard surcharge
\* in that order, each percentage to the running total of the step before
\* (preco_sem_taxas, then + impostos, then + taxa_cartao), each result quantized
\* half-up to 4 decimals, and the gross price is the sum of the four.
C1_OrdemDoPipeline ==
    (res # <<>> /\ "produto" \in DOMAIN ent) =>
        LET c == res[1]
            p == ent.parametros
        IN  /\ EhHalfUp(c.preco_sem_taxas, c.custo_total * (100 + c.margem), 100)
            /\ EhHalfUp(c.impostos,
                        c.preco_sem_taxas * p.impostos_percentual_sobre_venda, 100)
            /\ EhHalfUp(c.taxa_cartao,
                        (c.preco_sem_taxas + c.impostos) * p.taxa_cartao_percentual, 100)
            /\ EhHalfUp(c.acrescimo_padrao,
                        (c.preco_sem_taxas + c.impostos + c.taxa_cartao)
                            * p.acrescimo_padrao_percentual, 100)
            /\ c.bruto = c.preco_sem_taxas + c.impostos + c.taxa_cartao + c.acrescimo_padrao

\* a price computed with all three percentages at work, where the card fee on the
\* running total differs from the card fee on the price before taxes
C1_Witness ==
    /\ res # <<>> /\ "produto" \in DOMAIN ent
    /\ res[1].impostos > 0 /\ res[1].taxa_cartao > 0 /\ res[1].acrescimo_padrao > 0
    /\ res[1].taxa_cartao
         # RoundHalfUp(res[1].preco_sem_taxas * ent.parametros.taxa_cartao_percentual, 100)
    /\ res[1].acrescimo_padrao
         # RoundHalfUp(res[1].com_impostos * ent.parametros.acrescimo_padrao_percentual, 100)

\* C2: with a positive increment the final price is an integer multiple of the
\* increment, the multiple being gross/increment rounded half-up; with an increment
\* of zero it is the gross price rounded half-up to 2 decimals.
C2_Arredondamento ==
    (res # <<>> /\ "produto" \in DOMAIN ent) =>
        LET c == res[1]
            passo == ent.parametros.arredondar_para
        IN  IF passo > 0
            THEN /\ c.final % passo = 0
                 /\ EhHalfUp(c.final \div passo, c.bruto, 100 * passo)
            ELSE EhHalfUp(c.final, c.bruto, 100)

\* a gross price exactly half-way between two multiples of a positive increment,
\* rounded to the upper one
C2_Witness ==
    /\ res # <<>> /\ "produto" \in DOMAIN ent
    /\ ent.parametros.arredondar_para > 0
    /\ res[1].bruto > 0
    /\ 2 * (res[1].bruto % (100 * ent.parametros.arredondar_para))
         = 100 * ent.parametros.arredondar_para
    /\ 100 * res[1].final > res[1].bruto

\* the denominator the claims C5 and C6 speak of
Denominador(mp) ==
    IF mp.unidade_compra = mp.unidade_base
    THEN mp.quantidade_compra
    ELSE mp.quantidade_compra * mp.fator_conversao_para_base

\* C5: the cost per base unit is purchase_cost / (purchase_quantity x factor) when
\* the units differ and purchase_cost / purchase_quantity when they are equal,
\* quantized to 4 decimals with half-up rounding.
C5_CustoPorUnidadeBaseHalfUp ==
    (res # <<>> /\ DOMAIN ent = {"comps"}) =>
        \A i \in DOMAIN ent.comps :
            LET mp == ent.comps[i].mp
            IN  Denominador(mp) > 0 =>
                    EhHalfUp(res[1].unit[i], mp.custo_compra * 100, Denominador(mp))

\* C6: the cost per base unit is zero whenever the denominator is zero or negative.
C6_DenominadorNaoPositivoDaZero ==
    (res # <<>> /\ DOMAIN ent = {"comps"}) =>
        \A i \in DOMAIN ent.comps :
            Denominador(ent.comps[i].mp) <= 0 => res[1].unit[i] = 0

\* the sum of cost x quantity x (100 + component wastage), in units of 0.000001
RECURSIVE SomaEsperada(_, _, _)
SomaEsperada(comps, unit, n) ==
    IF n = 0 THEN 0
    ELSE unit[n] * comps[n].quantidade_uso * (100 + comps[n].perda_percentual)
         + SomaEsperada(comps, unit, n - 1)

\* C7: the materials cost is the sum over the components of cost per base unit x
\* quantity used x (1 + component wastage / 100), quantized once, half-up, to 4
\* decimals; a change of a material's own wastage percent leaves it unchanged.
C7_CustoMateriais ==
    /\ [](  (res # <<>> /\ DOMAIN ent = {"comps"}) =>
                EhHalfUp(res[1].materiais,
                         SomaEsperada(ent.comps, res[1].unit, Len(ent.comps)), 100))
    /\ [][ (res # <<>> /\ res' # <<>>) => res'[1].materiais = res[1].materiais ]_vars

\* two components with wastage whose material has a wastage percent of its own,
\* the sum needing rounding
C7_Witness ==
    /\ res # <<>> /\ DOMAIN ent = {"comps"}
    /\ Len(ent.comps) = 2
    /\ \E i \in DOMAIN ent.comps :
          /\ ent.comps[i].mp.perda_percentual > 0
          /\ ent.comps[i].perda_percentual > 0
          /\ res[1].unit[i] > 0
    /\ SomaEsperada(ent.comps, res[1].unit, 2) % 100 = 50
    /\ res[1].materiais > 0

\* C8: monthly hours = days x hours per day (1 in the divisions when zero); labour
\* and fixed rates per hour are income and fixed costs over the monthly hours; the
\* blended rate per minute is their sum over 60; each is a nearest 4-decimal value;
\* labour cost = rate per minute x production minutes. 3000.00, 22 days, 8 h, no
\* fixed costs, 10 minutes give 176, 17.0455, 0.2841 and 2.8410.
C8_MaoDeObra ==
    (res # <<>> /\ "tempo" \in DOMAIN ent) =>
        LET r == res[1]
            t == ent.tabela
            f == ent.fixos
            h == IF r.horas_mes = 0 THEN 1 ELSE r.horas_mes
            fixos == f.custo_energia_mensal + f.custo_internet_mensal
                        + f.outros_custos_fixos_mensais
        IN  /\ r.horas_mes = t.dias_trabalho_mes * t.horas_por_dia
            /\ EhProximo(r.mao_de_obra_hora, t.renda_mensal_desejada * 10000, h)
            /\ EhProximo(r.fixos_hora, fixos * 10000, h)
            /\ r.custo_hora_total = r.mao_de_obra_hora + r.fixos_hora
            /\ EhProximo(r.custo_minuto_total, r.custo_hora_total, 60)
            /\ r.custo_mao_de_obra = r.custo_minuto_total * ent.tempo
            /\ (t = TabelaDefaults /\ fixos = 0 /\ ent.tempo = 10) =>
                   /\ r.horas_mes = 176
                   /\ r.mao_de_obra_hora = 170455
                   /\ r.custo_minuto_total = 2841
                   /\ r.custo_mao_de_obra = 28410

\* the scenario of the specification, and fixed costs that enter the rate
C8_Witness ==
    /\ res # <<>> /\ "tempo" \in DOMAIN ent
    /\ ent.tabela = TabelaDefaults /\ ent.tempo = 10
    /\ ent.fixos.outros_custos_fixos_mensais > 0
    /\ res[1].mao_de_obra_hora = 170455
    /\ res[1].fixos_hora > 0
    /\ res[1].custo_mao_de_obra > 28410

\* C4: callers racing through the two get_or_create calls of preco_sugerido never
\* end in an error, cannot all be stuck, and once all have returned exactly one
\* ParametrosGlobais row and one TabelaHora row exist for the organisation.
C4_UmaLinhaPorEmpresa ==
    (chamadores # <<>>) =>
        /\ \A c \in Chamadores : chamadores[c].pc # "erro"
        /\ Len(parametros) <= 1 /\ Len(tabelas) <= 1
        /\ (\A c \in Chamadores : chamadores[c].pc = "done")
              => (Len(parametros) = 1 /\ Len(tabelas) = 1)
        /\ (\E c \in Chamadores : chamadores[c].pc # "done") => ENABLED NextCorrida

\* both callers found no row, both went on to INSERT, one of them hit the unique
\* index and read the other's row; all have returned
C4_Witness ==
    /\ chamadores # <<>>
    /\ \A c \in Chamadores : chamadores[c].pc = "done"
    /\ Len(parametros) = 1 /\ Len(tabelas) = 1
    /\ \E c \in Chamadores : chamadores[c].integrity_errors = {"parametros", "tabelas"}
    /\ \E c \in Chamadores : chamadores[c].atomic

\* the rows of ItemOrcamento of one quote
ItensDe(opk) == SelectSeq(itens, LAMBDA i : i.orcamento = opk)

\* C3: once a quote line exists, no later step (changes of components, materials,
\* parameters, labour table, price computations, cache refreshes, further quotes)
\* changes its unit price or its subtotal, and the line is never lost.
C3_LinhaCongelada ==
    [][ \A i \in DOMAIN itens :
            /\ i \in DOMAIN itens'
            /\ itens'[i].preco_unitario = itens[i].preco_unitario
            /\ itens'[i].quantidade * itens'[i].preco_unitario
                 = itens[i].quantidade * itens[i].preco_unitario ]_vars

\* a quote line whose product has since been re-priced: the live price and the
\* refreshed cache both differ from the frozen unit price
C3_Witness ==
    \E i \in DOMAIN itens :
        /\ preco_sugerido(Banco, itens[i].produto).preco_final # itens[i].preco_unitario
        /\ produtos[itens[i].produto].preco_sugerido_cache # itens[i].preco_unitario
        /\ produtos[itens[i].produto].preco_sugerido_cache
             = preco_sugerido(Banco, itens[i].produto).preco_final

\* the values a product of quantity (0.01) and price (cents) may quantize to
SubtotaisPossiveis(it) ==
    {x \in {(it.quantidade * it.preco_unitario) \div 100,
            (it.quantidade * it.preco_unitario) \div 100 + 1} :
        EhProximo(x, it.quantidade * it.preco_unitario, 100)}

RECURSIVE Soma(_, _)
Soma(f, n) == IF n = 0 THEN 0 ELSE f[n] + Soma(f, n - 1)

\* C9: the stored quote total is (sum of the line subtotals, each quantity x
\* frozen unit price quantized to 2 decimals) x (1 - discount/100) x
\* (1 + surcharge/100), quantized to 2 decimals; subtotals 50.00 and 30.00 with
\* 10% and 5% give 75.60.
C9_TotalDoOrcamento ==
    \A opk \in DOMAIN orcamentos :
        LET its == ItensDe(opk)
            orc == orcamentos[opk]
        IN  /\ \E subs \in [DOMAIN its -> UNION {SubtotaisPossiveis(its[i]) : i \in DOMAIN its}] :
                  /\ \A i \in DOMAIN its : subs[i] \in SubtotaisPossiveis(its[i])
                  /\ EhProximo(orc.valor_total_cache,
                               Soma(subs, Len(its)) * (100 - orc.desconto_percentual)
                                   * (100 + orc.acrescimo_percentual), 10000)
            /\ (/\ Len(its) = 2
                /\ its[1].quantidade * its[1].preco_unitario = 500000
                /\ its[2].quantidade * its[2].preco_unitario = 300000
                /\ orc.desconto_percentual = 10 /\ orc.acrescimo_percentual = 5)
               => orc.valor_total_cache = 7560

\* scenario 3: lines of 50.00 and 30.00, discount 10%, surcharge 5%, total 75.60
C9_Witness ==
    \E opk \in DOMAIN orcamentos :
        /\ Len(ItensDe(opk)) = 2
        /\ ItensDe(opk)[1].quantidade * ItensDe(opk)[1].preco_unitario = 500000
        /\ ItensDe(opk)[2].quantidade * ItensDe(opk)[2].preco_unitario = 300000
        /\ orcamentos[opk].desconto_percentual = 10
        /\ orcamentos[opk].acrescimo_percentual = 5
        /\ orcamentos[opk].valor_total_cache = 7560

NaBorda == res # <<>> /\ "calc" \in DOMAIN res[1]

\* C11: with cost_total and the other three percentages unchanged, raising the
\* margin in use, the sales tax, the card fee or the standard surcharge never
\* lowers the final price, whatever the rounding increment.
C11_MonotoniaDoPipeline ==
    [][ (/\ NaBorda /\ res' # <<>>
         /\ ent'.comps = ent.comps
         /\ res'[1].calc.custo_total = res[1].calc.custo_total)
        => res'[1].calc.final >= res[1].calc.final ]_vars

\* C12: with everything else unchanged, raising one component's wastage percent
\* never lowers the materials cost, and leaves it as it was when that component's
\* quantity or cost per base unit is zero.
C12_MonotoniaDaPerda ==
    [][ (/\ NaBorda /\ res' # <<>>
         /\ ent'.comps # ent.comps)
        => /\ res'[1].calc.materiais >= res[1].calc.materiais
           /\ \A i \in DOMAIN ent.comps :
                 (/\ ent'.comps[i] # ent.comps[i]
                  /\ (ent.comps[i].quantidade_uso = 0 \/ res[1].unit[i] = 0))
                 => res'[1].calc.materiais = res[1].calc.materiais ]_vars

\* C13: rounding to the increment is idempotent: the rounded value, rounded again
\* to the same increment, is itself.
C13_ArredondarIdempotente ==
    (res # <<>> /\ "passo" \in DOMAIN ent) => res[1].dois = res[1].um

\* a value half-way between two multiples of a positive increment: the first
\* rounding moves it up, the second leaves it there
C13_Witness ==
    /\ res # <<>> /\ "passo" \in DOMAIN ent
    /\ ent.passo > 1
    /\ 2 * (ent.valor % (100 * ent.passo)) = 100 * ent.passo
    /\ 100 * res[1].um > ent.valor
    /\ res[1].um # QTwo(ent.valor)
    /\ res[1].dois = res[1].um

\* the coverage is zero: the product does not opt into ink costing, or opts in
\* with a coverage of 0 percent
SemCobertura(produto) ==
    ~produto.usa_percentual_tinta \/ produto.percentual_tinta = 0

\* C14: a product without components has a materials cost of exactly 0, one
\* without production time a labour cost of 0, one without coverage an ink cost
\* of 0; when all three are zero the final price is 0.00 for every margin, tax,
\* card fee, surcharge and rounding increment.
C14_TermosZero ==
    NaBorda =>
        LET c == res[1].calc
            zerado == /\ ent.comps = <<>>
                      /\ ent.produto.tempo_producao_minutos = 0
                      /\ SemCobertura(ent.produto)
        IN  /\ ent.comps = <<>> => c.materiais = 0
            /\ ent.produto.tempo_producao_minutos = 0 => c.mao_de_obra = 0
            /\ SemCobertura(ent.produto) => c.tinta = 0
            /\ zerado => (c.custo_total = 0 /\ c.final = 0 /\ res[1].bd.preco_final = 0)

\* nothing to cost, yet every percentage at work: a margin, all three taxes, a
\* priced coverage of 0 percent and a rounding increment
C14_Witness ==
    /\ NaBorda
    /\ ent.comps = <<>> /\ ent.produto.tempo_producao_minutos = 0
    /\ ent.produto.usa_percentual_tinta /\ ent.produto.percentual_tinta = 0
    /\ ent.parametros.custo_tinta_por_percentual > 0
    /\ ent.parametros.impostos_percentual_sobre_venda > 0
    /\ ent.parametros.taxa_cartao_percentual > 0
    /\ ent.parametros.acrescimo_padrao_percentual > 0
    /\ ent.parametros.arredondar_para > 0
    /\ mao_de_obra_hora(ent.tabela) > 0
    /\ res[1].calc.final = 0

\* the monthly fixed costs of the parameters
FixosMensais(p) ==
    p.custo_energia_mensal + p.custo_internet_mensal + p.outros_custos_fixos_mensais

\* C15, as stated: with monthly hours of zero the labour cost is zero, and a
\* material whose conversion denominator is zero adds nothing to the cost.
C15_TermoAfetadoZero ==
    NaBorda =>
        /\ horas_mes(ent.tabela) = 0 => res[1].calc.mao_de_obra = 0
        /\ \A i \in DOMAIN ent.comps :
              Denominador(ent.comps[i].mp) = 0 => res[1].unit[i] = 0

\* C15, amended: with monthly hours of zero the rates are computed with 1 hour in
\* the month, so that the labour cost is (income + fixed costs) / 60, quantized to
\* 4 decimals, x production minutes; a material whose conversion denominator is
\* zero has a cost per base unit of zero and adds nothing to the materials cost.
C15_HorasZeroContaUmaHora ==
    NaBorda =>
        /\ horas_mes(ent.tabela) = 0 =>
              LET n == (ent.tabela.renda_mensal_desejada + FixosMensais(ent.parametros))
                           * 10000
              IN  \E x \in {n \div 60, n \div 60 + 1} :
                     /\ EhProximo(x, n, 60)
                     /\ res[1].calc.mao_de_obra = x * ent.produto.tempo_producao_minutos
        /\ \A i \in DOMAIN ent.comps :
              Denominador(ent.comps[i].mp) = 0 => res[1].unit[i] = 0
        /\ EhHalfUp(res[1].calc.materiais,
                    SomaEsperada(ent.comps, res[1].unit, Len(ent.comps)), 100)

\* a month of zero hours and ten minutes of work, a material without conversion
\* factor next to one that has a cost
C15_Witness ==
    /\ NaBorda
    /\ horas_mes(ent.tabela) = 0
    /\ ent.produto.tempo_producao_minutos > 0
    /\ res[1].calc.mao_de_obra > 0
    /\ Len(ent.comps) = 2
    /\ \E i \in DOMAIN ent.comps :
          Denominador(ent.comps[i].mp) = 0 /\ ent.comps[i].mp.custo_compra > 0
    /\ res[1].calc.materiais > 0

\* C16: the final price is never negative, whatever quantities and percentages
\* reach the pipeline.
C16_PrecoNaoNegativo ==
    NaBorda => (res[1].calc.final >= 0 /\ res[1].bd.preco_final >= 0)

\* produto_detail has returned and no input of the price has changed since
AposDetalhe == res # <<>> /\ "pk" \in DOMAIN res[1]

\* C17: as long as the product, its components, the materials, the parameters and
\* the labour table are not changed, a further call of preco_sugerido returns the
\* Breakdown the earlier one returned, also when the earlier one created the
\* default rows.
C17_MesmaEntradaMesmoBreakdown ==
    AposDetalhe => preco_sugerido(Banco, res[1].pk) = res[1].bd

\* the earlier call found neither row and created both; the product has a
\* component and a price
C17_Witness ==
    /\ AposDetalhe
    /\ res[1].criou = {"parametros", "tabelas"}
    /\ parametros = <<ParametrosDefaults>> /\ tabelas = <<TabelaDefaults>>
    /\ \E i \in DOMAIN componentes : componentes[i].produto = res[1].pk
    /\ res[1].bd.materiais > 0 /\ res[1].bd.mao_de_obra > 0
    /\ res[1].bd.preco_final > 0

\* C18: a request that only computes the price leaves the products (cache columns
\* included), the components, the materials, the quotes and every existing
\* parameter and labour-table row as they were; all it may add is the default row
\* of a table that had none.
C18_SoAcrescentaLinhasPadrao ==
    [][ (res' # <<>> /\ "pk" \in DOMAIN res'[1] /\ res' # res) =>
            /\ produtos' = produtos
            /\ componentes' = componentes
            /\ materias' = materias
            /\ orcamentos' = orcamentos
            /\ itens' = itens
            /\ parametros' = (IF parametros = <<>> THEN <<ParametrosDefaults>>
                              ELSE parametros)
            /\ tabelas' = (IF tabelas = <<>> THEN <<TabelaDefaults>> ELSE tabelas) ]_vars

\* the price was computed on edited parameters and a stale cache: the labour table
\* was missing and is now the default one, the edited row and the cache are as
\* they were
C18_Witness ==
    /\ AposDetalhe
    /\ res[1].criou = {"tabelas"}
    /\ parametros = <<ParametrosAlterados>>
    /\ tabelas = <<TabelaDefaults>>
    /\ produtos[res[1].pk].preco_sugerido_cache # res[1].bd.preco_final
    /\ produtos[res[1].pk].preco_sugerido_cache > 0

\* C19: a failing write of the cache columns never fails the request that
\* triggered it: saving a product, saving or deleting a component and
\* produto_create raise nothing and their changes are committed.
C19_FalhaDoCacheNaoImpede ==
    (res # <<>> /\ "falha" \in DOMAIN res[1] /\ res[1].falha # "nenhuma")
        => (res[1].ok /\ ~res[1].levantou)

\* C20: after a change of a product, of one of its components or of the
\* organisation's parameters or labour table, the cache columns of every product
\* hold the cost_total and the final price preco_sugerido returns on the new state.
C20_CacheAtualAposMudanca ==
    [][ (\/ produtos' # produtos
         \/ componentes' # componentes
         \/ (parametros' # parametros /\ parametros # <<>>)
         \/ (tabelas' # tabelas /\ tabelas # <<>>))
        => \A pk \in DOMAIN produtos' :
              /\ produtos'[pk].custo_estimado_cache = preco_sugerido(Banco', pk).custo_total
              /\ produtos'[pk].preco_sugerido_cache = preco_sugerido(Banco', pk).preco_final
      ]_vars

\* C21: the margin preco_sugerido uses is the product's margem_lucro_override
\* whenever the override is set, an override of exactly 0 included, and the
\* default margin of ParametrosGlobais only when the override is absent (None).
C21_MargemOverride ==
    (res # <<>> /\ "produto" \in DOMAIN ent) =>
        LET o == ent.produto.margem_lucro_override
            c == res[1]
        IN  /\ (o # <<>>) => c.margem = o[1]
            /\ (o = <<>>) => c.margem = ent.parametros.margem_lucro_padrao
            /\ EhHalfUp(c.preco_sem_taxas, c.custo_total * (100 + c.margem), 100)

\* an override of exactly 0 with a default of 30: the price before taxes is the
\* total cost itself
C21_Witness ==
    /\ res # <<>> /\ "produto" \in DOMAIN ent
    /\ ent.produto.margem_lucro_override = <<0>>
    /\ ent.parametros.margem_lucro_padrao > 0
    /\ res[1].custo_total > 0
    /\ res[1].margem = 0
    /\ res[1].preco_sem_taxas = res[1].custo_total

\* base units in one purchase unit according to the helper field that matches
\* the base unit: sheets per ream, metres per roll, square metres per roll
\* (<<>> when that helper is not filled in)
BasePorUnidadeDeCompra(data) ==
    IF data.unidade_base = "FOLHA" /\ data.folhas_por_resma # <<>>
    THEN <<data.folhas_por_resma[1]>>
    ELSE IF data.unidade_base = "M" /\ data.comprimento_m # <<>>
    THEN <<data.comprimento_m[1]>>
    ELSE IF data.unidade_base = "M2" /\ data.largura_cm # <<>> /\ data.comprimento_m # <<>>
    THEN <<(data.largura_cm[1] * data.comprimento_m[1]) \div 100>>
    ELSE <<>>

\* C28: when MateriaPrimaForm.clean derives the conversion factor from a helper
\* field because no positive factor was entered, custo_unitario_base of the saved
\* row is custo_compra divided by the base units actually purchased
\* (quantidade_compra x base units per purchase unit), for every purchase quantity.
C28_FatorDerivadoDaCustoPorUnidadeBase ==
    (res # <<>> /\ DOMAIN ent = {"data"}
        /\ ent.data.fator_conversao_para_base <= 0
        /\ BasePorUnidadeDeCompra(ent.data) # <<>>) =>
        EhProximo(res[1].unit, ent.data.custo_compra * 100,
                  ent.data.quantidade_compra * BasePorUnidadeDeCompra(ent.data)[1])

\* C29: the materials total that produto_detail itemizes (the sum of the
\* subtotals of comp_rows) equals the materials amount of the Breakdown that
\* preco_sugerido returns for the same components.
C29_TotalItemizadoIgualAoBreakdown ==
    (res # <<>> /\ DOMAIN ent = {"linhas"}) =>
        res[1].total_materiais = res[1].bd_materiais

\* C30: a request to orcamento_create with a valid header and an invalid
\* line-item formset has no lasting effect: whenever a step leaves one more
\* Orcamento row behind, it is a step whose formset was valid (req' holds the
\* lines it saved).
C30_FormsetInvalidoNaoDeixaOrcamento ==
    [][Len(orcamentos') > Len(orcamentos) => req' # <<>>]_vars

\* the product items_per_sheet x (2 if duplex else 1) of a posted component form,
\* a blank items_per_sheet standing for its initial value 1
ItensVezesMultiplicador(data) ==
    (IF data.itens_por_folha = <<>> THEN 1 ELSE data.itens_por_folha[1])
        * (IF data.duplex THEN 2 ELSE 1)

C23_CancelaSoPendentesVencidos ==
    [][(res' # <<>> /\ product # <<>>) =>
          /\ DOMAIN orders' = DOMAIN orders
          /\ \A pk \in DOMAIN orders :
                orders'[pk] =
                    IF orders[pk].status = "pending" /\ orders[pk].expires_at < now
                    THEN [orders[pk] EXCEPT !.status = "cancelled"]
                    ELSE orders[pk]
          /\ res'[1].count = Cardinality({pk \in DOMAIN orders :
                                  orders[pk].status # orders'[pk].status})
          /\ UNCHANGED <<now, product, payments, links>>]_vars

\* the command has just cancelled one order, overdue by a day, and left alone
\* a pending order whose expires_at is exactly now
C23_Witness ==
    /\ product # <<>> /\ res # <<>> /\ res[1].count = 1
    /\ \E pk \in DOMAIN orders :
          orders[pk].status = "cancelled" /\ orders[pk].expires_at < now
    /\ \E pk \in DOMAIN orders :
          orders[pk].status = "pending" /\ orders[pk].expires_at = now

\* C24: under any sequence of webhook notifications, return redirects, polling,
\* pending-page views and expiry checks, the status of an order only moves
\* from pending to paid or from pending to cancelled.
C24_StatusSoSaiDePending ==
    [][product # <<>> =>
          \A pk \in DOMAIN orders :
              orders'[pk].status # orders[pk].status => orders[pk].status = "pending"]_vars

\* C27: for every Pix order that has a payment_id, order.amount equals the
\* transaction_amount that was sent to the gateway when that payment was created.
C27_ValorDoPedidoIgualAoEnviado ==
    \A pk \in DOMAIN orders :
        (orders[pk].payment_type = "pix" /\ orders[pk].payment_id # <<>>) =>
            orders[pk].amount = payments[orders[pk].payment_id[1]].transaction_amount

\* C26: after any interleaving of checkout submissions by the same customer, at
\* most one non-expired pending order exists for the (digital) product, the
\* customer and each payment type.
C26_UmPedidoPendentePorTipo ==
    product # <<>> =>
        \A payment_type \in {"pix", "card"} :
            Cardinality({pk \in DOMAIN orders :
                            /\ orders[pk].payment_type = payment_type
                            /\ orders[pk].status = "pending"
                            /\ orders[pk].expires_at >= now}) <= 1

\* C25: for every DownloadLink, download_count never exceeds max_downloads, under
\* any interleaving of concurrent secure_download requests for the same token.
C25_ContagemNaoPassaDoMaximo ==
    \A pk \in DOMAIN links : links[pk].download_count <= links[pk].max_downloads

\* two requests read the link one download short of the maximum, both passed
\* is_valid, both were redirected to the file; the count stands at the maximum
C25_Witness ==
    /\ requests # <<>> /\ links # <<>>
    /\ \A r \in Requests :
          /\ requests[r].pc = "redirected"
          /\ requests[r].link[2].download_count = links[1].max_downloads - 1
    /\ links[1].max_downloads = 2
    /\ links[1].download_count = links[1].max_downloads

====
